---- MODULE Spec2Model ----
(***************************************************************************)
(* Axisymmetric pumping-test core: the vertical and radial grid builders,  *)
(* the drawdown comparator's fit statistics, and the forward-run /         *)
(* calibration engine of ModelSimulator.                                   *)
(*                                                                         *)
(* Numbers.  The program computes in floating point.  Here every length,   *)
(* level and thickness is an integer count of 1/Scale length units, and a  *)
(* multiplier is a fraction <<num, den>>; a product is truncated to the    *)
(* grid (Mul), so a thickness that shrinks below the resolution becomes 0  *)
(* and a loop that adds it makes no progress, as a float addition that is  *)
(* absorbed makes none.                                                    *)
(***************************************************************************)
EXTENDS Integers, Sequences, FiniteSets, TLC

\* ------------------------------------------------------------------ bounds
Scale == 4          \* grid points per length unit
MaxLevel == 4       \* levels range over 0 .. MaxLevel length units
FitScale == 10      \* an RMSE is held in 1/FitScale drawdown units

\* ------------------------------------------------------- python list helpers
Pop0(l) == Tail(l)
PopLast(l) == SubSeq(l, 1, Len(l) - 1)
Reverse(l) == [i \in 1..Len(l) |-> l[Len(l) + 1 - i]]
Elems(l) == {l[i] : i \in 1..Len(l)}

RECURSIVE SumSeq(_)
SumSeq(l) == IF l = <<>> THEN 0 ELSE Head(l) + SumSeq(Tail(l))

\* product of a length and a multiplier <<num, den>>, truncated to the grid
Mul(t, m) == (t * m[1]) \div m[2]

\* ------------------------------------------------- VerticalRefinement
\* while current_level_up < self.top_level: ...        (the loop above the screen)
RECURSIVE UpLoop(_, _, _, _)
UpLoop(vr, cur, t, levels) ==
    IF cur < vr.top_level
    THEN LET t1 == Mul(t, vr.multiplier_above_screen) IN
         IF t1 <= 0 THEN [status |-> "hang", levels |-> levels]
         ELSE UpLoop(vr, cur + t1, t1, Append(levels, cur))
    ELSE [status |-> "ok", levels |-> levels]

\* while current_level_down > self.bottom_level + self.layer_thickness_2: ...
\* (the loop below the screen; it updates self.layer_thickness_2 in place)
RECURSIVE DownLoop(_, _, _, _)
DownLoop(vr, cur, t, levels) ==
    IF cur > vr.bottom_level + t
    THEN LET t2 == Mul(t, vr.multiplier_below_screen) IN
         IF t2 <= 0 THEN [status |-> "hang", levels |-> levels, t |-> t2]
         ELSE DownLoop(vr, cur - t2, t2, Append(levels, cur))
    ELSE [status |-> "ok", levels |-> levels, t |-> t]

\* while current_level1 > mid_point: ...   (the loop inside the screen; it
\* updates self.layer_thickness_1 in place).  mid_point = (p1 + p2) / 2 is
\* compared as 2 * current_level1 > p1 + p2.
RECURSIVE ScreenLoop(_, _, _, _, _, _)
ScreenLoop(vr, c1, c2, t, sc_top, sc_down) ==
    IF 2 * c1 > vr.point_1_level + vr.point_2_level
    THEN IF t <= 0 THEN [status |-> "hang", sc_top |-> sc_top, sc_down |-> sc_down, t |-> t]
         ELSE ScreenLoop(vr, c1 - t, c2 + t, Mul(t, vr.multiplier_between_screen),
                         Append(sc_top, c1 - t), Append(sc_down, c2 + t))
    ELSE [status |-> "ok", sc_top |-> sc_top, sc_down |-> sc_down, t |-> t]

\* The grid of one call that got through its loops and pops.
GridOf(vr, up, dn, sc) ==
    LET top == up \o sc.sc_top \o sc.sc_down \o dn.levels
        bottom == Append(Tail(top), vr.bottom_level)
    IN [status |-> "ok", top |-> top, bottom |-> bottom,
        thickness |-> [i \in 1..Len(top) |-> top[i] - bottom[i]],
        layer_thickness_1 |-> sc.t, layer_thickness_2 |-> dn.t]

\* What a call does not return when it raises or never ends; the instance
\* keeps the seed thicknesses it had reached.
NoGrid(status, t1, t2) ==
    [status |-> status, top |-> <<>>, bottom |-> <<>>, thickness |-> <<>>,
     layer_thickness_1 |-> t1, layer_thickness_2 |-> t2]

\* variant: the overshooting level is kept in place of top_level
UpLevels_NoInsert(vr, levels) ==
    IF Len(levels) < 2 THEN [status |-> "IndexError", levels |-> <<>>]
    ELSE LET r == Reverse(Pop0(Pop0(levels))) IN
         IF r = <<>> THEN [status |-> "IndexError", levels |-> <<>>]
         ELSE [status |-> "ok", levels |-> r]

\* level_upward_pt1 after the loop: pop(0); pop(0); reverse(); pop(0);
\* insert(0, top_level).  A pop from an empty list raises IndexError.
UpLevels(vr, levels) ==
    IF Len(levels) < 2 THEN [status |-> "IndexError", levels |-> <<>>]
    ELSE LET r == Reverse(Pop0(Pop0(levels))) IN
         IF r = <<>> THEN [status |-> "IndexError", levels |-> <<>>]
         ELSE [status |-> "ok", levels |-> <<vr.top_level>> \o Pop0(r)]

\* level_sc_down.reverse(); level_sc_top.pop(-1); level_sc_down.pop(0);
\* level_sc_down.pop(-1)
ScreenLevels(sc) ==
    LET down == Pop0(Reverse(sc.sc_down)) IN
    IF down = <<>> THEN [status |-> "IndexError", sc_top |-> <<>>, sc_down |-> <<>>, t |-> sc.t]
    ELSE [status |-> "ok", sc_top |-> PopLast(sc.sc_top), sc_down |-> PopLast(down), t |-> sc.t]

calculate_thicknesses(vr) ==
    LET t1 == vr.layer_thickness_1
        t2 == vr.layer_thickness_2
        upl == UpLoop(vr, vr.point_1_level, t1, <<vr.point_1_level>>)
    IN
    IF upl.status # "ok" THEN NoGrid(upl.status, t1, t2)
    ELSE LET up == UpLevels(vr, upl.levels) IN
    IF up.status # "ok" THEN NoGrid(up.status, t1, t2)
    ELSE LET dnl == DownLoop(vr, vr.point_2_level, t2, <<vr.point_2_level>>) IN
    IF dnl.status # "ok" THEN NoGrid(dnl.status, t1, dnl.t)
    ELSE LET dn == [dnl EXCEPT !.levels = Pop0(dnl.levels)]
             scl == ScreenLoop(vr, vr.point_1_level, vr.point_2_level, t1,
                               <<vr.point_1_level>>, <<vr.point_2_level>>)
         IN
    IF scl.status # "ok" THEN NoGrid(scl.status, scl.t, dn.t)
    ELSE LET sc == ScreenLevels(scl) IN
    IF sc.status # "ok" THEN NoGrid(sc.status, sc.t, dn.t)
    ELSE GridOf(vr, up.levels, dn, sc)

\* ------------------------------------------------- ColumnCalculator
\* ColumnCalculator.__init__
ColumnCalculator(total_length, well_radius, col_size, MF) ==
    [total_length |-> total_length, well_radius |-> well_radius,
     col_size |-> col_size, MF |-> MF]

\* while current_length < self.total_length: ...  The final column absorbs
\* the remainder: delr[-1] += total_length - sum(delr), when that is > 0.
RECURSIVE ColumnLoop(_, _, _, _)
ColumnLoop(cc, current_length, col_size, delr) ==
    IF current_length < cc.total_length
    THEN LET next_size == Mul(col_size, cc.MF)
             reached == current_length + next_size
         IN IF reached < cc.total_length
            THEN IF next_size <= 0 THEN [status |-> "hang", delr |-> delr]
                 ELSE ColumnLoop(cc, reached, next_size, Append(delr, col_size))
            ELSE LET remaining_length == cc.total_length - SumSeq(delr) IN
                 [status |-> "ok",
                  delr |-> IF remaining_length > 0
                           THEN [delr EXCEPT ![Len(delr)] = @ + remaining_length]
                           ELSE delr]
    ELSE [status |-> "ok", delr |-> delr]

\* cumulative_distances = [0, delr[0], delr[0] + delr[1], ...]
Cumulative(delr) == [i \in 1..(Len(delr) + 1) |-> SumSeq(SubSeq(delr, 1, i - 1))]

\* col_centroids holds twice each centroid, (d[i] + d[i + 1]) / 2, so that it
\* stays on the integer grid
calculate_columns(cc) ==
    LET loop == ColumnLoop(cc, cc.well_radius, cc.col_size, <<cc.well_radius>>)
        d == Cumulative(loop.delr)
    IN [status |-> loop.status, delr |-> loop.delr,
        cumulative_distances |-> d,
        col_centroids |-> [i \in 1..Len(loop.delr) |-> d[i] + d[i + 1]],
        ncol |-> Len(loop.delr)]

\* RadialDomain invariant
ValidRadial(cc) ==
    /\ cc.well_radius > 0
    /\ cc.total_length > cc.well_radius
    /\ cc.MF[1] > 0 /\ cc.MF[2] > 0

\* what calculate_columns has not returned yet
NoColumns ==
    [status |-> "none", delr |-> <<>>, cumulative_distances |-> <<>>,
     col_centroids |-> <<>>, ncol |-> 0]

\* ------------------------------------------------- ParametersConversions
\* ParametersConversions.__init__, with the class attributes it leaves in place
ParametersConversions(distance, columnsWidths, layersHeights) ==
    [_distance |-> distance, _columns_widths |-> columnsWidths,
     _layers_heights |-> layersHeights,
     _original_hk |-> <<>>, _original_sy |-> 0, _original_ss |-> 0,
     _converted_hk |-> <<>>, _converted_sy |-> <<>>, _converted_ss |-> <<>>]

\* Numbers of this class.  _theta and every converted value are held in
\* thousandths; original values and distances are whole numbers, so the
\* products are exact and a quotient that comes out whole is exact.
_theta == 6280      \* _theta = 2 * 3.14

\* what a call has not returned yet, or does not return when it raises
NoParameters == [status |-> "none", hk |-> <<>>, sy |-> <<>>, ss |-> <<>>]

Raised(exception) == [NoParameters EXCEPT !.status = exception]

\* set_original_parameters
set_original_parameters(p, hk, sy, ss) ==
    [p EXCEPT !._original_hk = hk, !._original_sy = sy, !._original_ss = ss]

\* set_converted_parameters
set_converted_parameters(p, hk, sy, ss) ==
    [p EXCEPT !._converted_hk = hk, !._converted_sy = sy, !._converted_ss = ss]

\* _calculate_converted_value_for_one_cell
OneCell(original_value, distance) == original_value * _theta * distance

\* calculate_areas_of_the_grid
calculate_areas_of_the_grid(p) ==
    [layer \in 1..Len(p._layers_heights) |->
        [column \in 1..Len(p._columns_widths) |->
            p._layers_heights[layer] * p._columns_widths[column]]]

\* calculate_converted_hk: one row per entry of _original_hk, one value per distance
calculate_converted_hk(p) ==
    [l \in 1..Len(p._original_hk) |->
        [c \in 1..Len(p._distance) |-> OneCell(p._original_hk[l], p._distance[c])]]

\* calculate_converted_sy: one value per distance
calculate_converted_sy(p) ==
    [c \in 1..Len(p._distance) |-> OneCell(p._original_sy, p._distance[c])]

\* calculate_converted_ss: one row per layer height, one value per distance
calculate_converted_ss(p) ==
    LET areas == calculate_areas_of_the_grid(p) IN
    [row \in 1..Len(p._layers_heights) |->
        [column \in 1..Len(p._distance) |->
            p._original_ss * p._distance[column] * _theta * areas[row][column]]]

calculate_converted_parameters(p) ==
    [status |-> "returned", hk |-> calculate_converted_hk(p),
     sy |-> calculate_converted_sy(p), ss |-> calculate_converted_ss(p)]

\* calculate_original_hk: self._converted_hk[0] / (self._theta * self._distance[0]).
\* _converted_hk[0] is the first row of the matrix, a python list, and a list
\* divided by a float raises TypeError; of an empty list, [0] raises IndexError.
calculate_original_hk(p) ==
    IF p._converted_hk = <<>> THEN "IndexError" ELSE "TypeError"

\* calculate_original_sy: self._converted_sy[0] / (self._theta * self._distance[0])
calculate_original_sy(p) == p._converted_sy[1] \div (_theta * p._distance[1])

\* calculate_original_ss
calculate_original_ss(p) ==
    LET area == p._columns_widths[1] * p._layers_heights[1] IN
    p._converted_ss[1][1] \div (p._distance[1] * area * _theta)

\* calculate_original_parameters: the three calls in turn; the first one raises
calculate_original_parameters(p) ==
    IF calculate_original_hk(p) \in {"IndexError", "TypeError"}
    THEN Raised(calculate_original_hk(p))
    ELSE [status |-> "returned", hk |-> calculate_original_hk(p),
          sy |-> calculate_original_sy(p), ss |-> calculate_original_ss(p)]

\* ------------------------------------------------- DrawdownInterpolation
\* a float is <<v>> where it is a number v, and <<>> where it is nan
NaN == <<>>
Num(v) == <<v>>

\* integer square root (floor)
Isqrt(v) == CHOOSE r \in 0..v : r * r <= v /\ (r + 1) * (r + 1) > v

Abs(v) == IF v < 0 THEN -v ELSE v

\* valid_indices = ~np.isnan(simulated); obs[valid_indices] - sim[valid_indices]
RECURSIVE Errors(_, _)
Errors(obs, sim) ==
    IF sim = <<>> THEN <<>>
    ELSE IF Head(sim) = NaN THEN Errors(Tail(obs), Tail(sim))
         ELSE <<Head(obs)[1] - Head(sim)[1]>> \o Errors(Tail(obs), Tail(sim))

\* np.sqrt(np.mean(errors ** 2)), in 1/FitScale drawdown units; the mean of
\* an empty array is nan (numpy warns, it does not raise)
calculate_rmse(obs, sim) ==
    LET errors == Errors(obs, sim) IN
    IF errors = <<>> THEN NaN
    ELSE Num(Isqrt((FitScale * FitScale
                      * SumSeq([i \in 1..Len(errors) |-> errors[i] * errors[i]]))
                   \div Len(errors)))

\* np.sum(np.abs(...)); the sum of an empty array is 0.0
calculate_total_residual_error(obs, sim) ==
    LET errors == Errors(obs, sim) IN
    Num(SumSeq([i \in 1..Len(errors) |-> Abs(errors[i])]))

\* smallest_time_step = np.diff(self.observed_time).min()
smallest_time_step(observed_time) ==
    LET gaps == {observed_time[i + 1] - observed_time[i] : i \in 1..(Len(observed_time) - 1)}
    IN CHOOSE g \in gaps : \A h \in gaps : g <= h

\* np.arange(start, stop, step): start + k * step for every k >= 0 with
\* start + k * step < stop
Arange(start, stop, step) ==
    LET n == IF stop <= start THEN 0 ELSE ((stop - start) + (step - 1)) \div step
    IN [k \in 1..n |-> start + (k - 1) * step]

\* interp1d(xs, ys, kind='linear', bounds_error=False,
\* fill_value='extrapolate')(x): on the segment that holds x, and on the first
\* or the last segment where x lies outside the knots.  The value is
\* truncated to the drawdown resolution.
Interp1d(xs, ys, x) ==
    LET n == Len(xs)
        i == IF x <= xs[1] THEN 1
             ELSE IF x >= xs[n] THEN n - 1
             ELSE CHOOSE j \in 1..(n - 1) : xs[j] <= x /\ x < xs[j + 1]
    IN ys[i] + ((ys[i + 1] - ys[i]) * (x - xs[i])) \div (xs[i + 1] - xs[i])

\* interpolate_to_smallest_time_step: the common grid, and the observed
\* drawdown on it
interpolate_to_smallest_time_step(di) ==
    LET step == smallest_time_step(di.observed_time)
        times == Arange(di.observed_time[1],
                        di.observed_time[Len(di.observed_time)] + step, step)
    IN [interpolated_times |-> times,
        interpolated_observed_drawdown |->
            [k \in 1..Len(times) |-> Num(Interp1d(di.observed_time, di.observed_DD, times[k]))]]

\* variant: the simulated times are never shifted
ComparisonTimes_Unshifted(di) == di.simulated_times

\* variant: the simulated times are shifted in every analysis period
ComparisonTimes_AlwaysShifted(di) ==
    [k \in 1..Len(di.simulated_times) |-> di.simulated_times[k] + di.pumping_end_time]

\* interpolate_simulated_to_observed: recovery_time = [t + pumping_end_time
\* for t in simulated_times] when analysis_period == "Recovery Only", else
\* simulated_times
ComparisonTimes(di) ==
    IF di.analysis_period = "Recovery Only"
    THEN [k \in 1..Len(di.simulated_times) |-> di.simulated_times[k] + di.pumping_end_time]
    ELSE di.simulated_times

\* variant: outside the simulated times the nearest sample is taken, nothing
\* is extrapolated
interpolate_simulated_to_observed_Held(di, times) ==
    LET xs == ComparisonTimes(di)
        Held(x) == IF x < xs[1] THEN xs[1] ELSE IF x > xs[Len(xs)] THEN xs[Len(xs)] ELSE x
    IN [k \in 1..Len(times) |-> Num(Interp1d(xs, di.simulated_drawdowns, Held(times[k])))]

interpolate_simulated_to_observed(di, times) ==
    [k \in 1..Len(times) |->
        Num(Interp1d(ComparisonTimes(di), di.simulated_drawdowns, times[k]))]

\* ------------------------------------------------- ObservedVsSimulatedPlotter
\* Heads are held in tenths of the head unit.
threshold == 2      \* def radius_influence(self, threshold=0.2)

\* variant: a head exactly threshold away from the static head also counts
NearStatic_Inclusive(p) ==
    {i \in 1..Len(p.avg_head_at_depth) :
        Abs(p.starting_heads - p.avg_head_at_depth[i]) <= threshold}

\* the columns whose averaged head is within the threshold of the static head
NearStatic(p) ==
    {i \in 1..Len(p.avg_head_at_depth) :
        Abs(p.starting_heads - p.avg_head_at_depth[i]) < threshold}

\* variant: the last column within the threshold, not the first
radius_influence_Last(p) ==
    LET near == NearStatic(p) IN
    IF near = {} THEN p.col_length
    ELSE p.distance[CHOOSE i \in near : \A j \in near : j <= i]

\* radius_influence: the loop stops at the first column within the
\* threshold; without one the result is col_length
radius_influence(p) ==
    LET near == NearStatic(p) IN
    IF near = {} THEN p.col_length
    ELSE p.distance[CHOOSE i \in near : \A j \in near : i <= j]

\* ------------------------------------------------- ModelConfig
PumpingOnly == "Pumping Only"
RecoveryOnly == "Recovery Only"
PumpingAndRecovery == "Pumping + Recovery"
AnalysisPeriods == {PumpingOnly, RecoveryOnly, PumpingAndRecovery}

\* get_time_parameters: any selector other than the first two is taken as
\* "Pumping + Recovery"
get_time_parameters(analysis_period) ==
    [analysis_period |-> analysis_period,
     include_pumping |-> analysis_period # RecoveryOnly,
     include_recovery |-> analysis_period # PumpingOnly,
     Number_Stress_Periods |-> IF analysis_period \in {PumpingOnly, RecoveryOnly} THEN 1 ELSE 2]

\* get_hydraulic_conductivity_profile: a dict keyed by (top, bottom); rows is
\* the conductivity table, a sequence of [range, k]
RECURSIVE HkProfile(_)
HkProfile(rows) ==
    IF rows = <<>> THEN <<>>
    ELSE LET init == HkProfile(PopLast(rows))
             last == rows[Len(rows)]
             at == {i \in 1..Len(init) : init[i].range = last.range}
         IN IF at = {} THEN Append(init, last)
            ELSE [i \in 1..Len(init) |-> IF i \in at THEN last ELSE init[i]]

\* ------------------------------------------------- UnitConverter
m_per_day_to_m_per_sec_factor == 86400

\* conductivities in m/s are held in units of 1 / HkUnit
HkUnit == 1000 * 1000

meters_per_day_to_meters_per_sec(value) == (value * HkUnit) \div m_per_day_to_m_per_sec_factor

\* ------------------------------------------------- ModelSimulator
HkDefault == 1              \* hk_values.append(1e-6)

\* the conductivity of one layer: the value of the first interval with
\* depth_range[0] >= layer_midpoint > depth_range[1], else the first value of
\* the profile, else the default.  The midpoint is (top + bottom) / 2: both
\* sides of the comparison are doubled.
LayerConductivity(hk_profile_m_sec, layer_top, layer_bottom) ==
    LET hits == {j \in 1..Len(hk_profile_m_sec) :
                    /\ 2 * hk_profile_m_sec[j].range[1] >= layer_top + layer_bottom
                    /\ layer_top + layer_bottom > 2 * hk_profile_m_sec[j].range[2]}
    IN IF hits # {} THEN hk_profile_m_sec[CHOOSE j \in hits : \A h \in hits : j <= h].k
       ELSE IF hk_profile_m_sec # <<>> THEN hk_profile_m_sec[1].k
       ELSE HkDefault

\* the layers whose midpoint lies in an interval of the profile
CoveredLayers(profile, top, bottom) ==
    {i \in 1..Len(top) : \E j \in 1..Len(profile) :
        /\ 2 * profile[j].range[1] >= top[i] + bottom[i]
        /\ top[i] + bottom[i] > 2 * profile[j].range[2]}

\* variant: a layer in no interval is skipped
LayerValues_Skipping(hk_profile_m_sec, top, bottom) ==
    LET all == [i \in 1..Len(top) |-> [layer |-> i,
                   k |-> LayerConductivity(hk_profile_m_sec, top[i], bottom[i])]]
        kept == SelectSeq(all, LAMBDA e : e.layer \in CoveredLayers(hk_profile_m_sec, top, bottom))
    IN [i \in 1..Len(kept) |-> kept[i].k]

\* for i in range(len(top)): ... hk_values.append(...)
LayerValues(hk_profile_m_sec, top, bottom) ==
    [i \in 1..Len(top) |-> LayerConductivity(hk_profile_m_sec, top[i], bottom[i])]

calculate_hydraulic_parameters(profile, sy, ss, col_centroids, delr, thickness, top, bottom) ==
    LET hk_profile_m_sec ==
            [j \in 1..Len(profile) |->
                [range |-> profile[j].range, k |-> meters_per_day_to_meters_per_sec(profile[j].k)]]
        values == LayerValues(hk_profile_m_sec, top, bottom)
        p == set_original_parameters(ParametersConversions(col_centroids, delr, thickness),
                                     values, sy, ss)
    IN [hk_values |-> values, par |-> p, converted |-> calculate_converted_parameters(p)]

PENALTY == 1000000          \* return 1e6
max_rmse == 1
max_total_residual == 100
weight_rmse == 2            \* 0.2, in tenths
weight_total_residual == 8  \* 0.8, in tenths
maxiter == 4                \* fmin(..., maxiter=4)

\* objective values are held in units of 1 / ObjUnit
ObjUnit == 10 * max_rmse * max_total_residual
PenaltyValue == PENALTY * ObjUnit

\* run_optimization: initial_guess, in the order hk rows, sy, ss
initial_guess(cfg) ==
    (IF cfg.solve_Hk = "Yes" THEN [i \in 1..Len(cfg.hk) |-> cfg.hk[i].k] ELSE <<>>)
    \o (IF cfg.solve_Sy = "Yes" THEN <<cfg.sy>> ELSE <<>>)
    \o (IF cfg.solve_Ss = "Yes" THEN <<cfg.ss>> ELSE <<>>)

\* The parameters a forward run uses when no value is handed to it.
ConfiguredParams(cfg) ==
    [hk |-> [i \in 1..Len(HkProfile(cfg.hk)) |-> HkProfile(cfg.hk)[i].k],
     sy |-> cfg.sy, ss |-> cfg.ss]

\* values[param_idx : param_idx + n], as python slices: short when the
\* vector is short
Slice(values, from, n) ==
    [i \in 1..(IF Len(values) - from + 1 < n
               THEN (IF Len(values) - from + 1 < 0 THEN 0 ELSE Len(values) - from + 1)
               ELSE n) |-> values[from + i - 1]]

\* run_optimization: params_to_optimize, the names of the entries of
\* initial_guess
params_to_optimize(cfg) ==
    (IF cfg.solve_Hk = "Yes" THEN [i \in 1..Len(cfg.hk) |-> <<"hk_layer", i>>] ELSE <<>>)
    \o (IF cfg.solve_Sy = "Yes" THEN << <<"sy", 0>> >> ELSE <<>>)
    \o (IF cfg.solve_Ss = "Yes" THEN << <<"ss", 0>> >> ELSE <<>>)

\* variant: param_idx is not advanced past the conductivities
ObjectiveParams_NotAdvanced(cfg, parameter_values) ==
    LET hk_profile == HkProfile(cfg.hk)
        hk_values_list == IF cfg.solve_Hk = "Yes"
                          THEN Slice(parameter_values, 1, Len(hk_profile)) ELSE <<>>
        idx1 == 1
        idx2 == IF cfg.solve_Sy = "Yes" THEN idx1 + 1 ELSE idx1
    IN [hk |-> IF Len(hk_values_list) > 0
               THEN [i \in 1..Len(hk_profile) |->
                        IF i <= Len(hk_values_list) THEN hk_values_list[i] ELSE hk_profile[i].k]
               ELSE [i \in 1..Len(hk_profile) |-> hk_profile[i].k],
        sy |-> IF cfg.solve_Sy = "Yes" THEN parameter_values[idx1] ELSE cfg.sy,
        ss |-> IF cfg.solve_Ss = "Yes" THEN parameter_values[idx2] ELSE cfg.ss]

\* objective_function: the trial vector decoded into hk_profile_updated, sy, ss
ObjectiveParams(cfg, parameter_values) ==
    LET hk_profile == HkProfile(cfg.hk)
        hk_values_list == IF cfg.solve_Hk = "Yes"
                          THEN Slice(parameter_values, 1, Len(hk_profile)) ELSE <<>>
        idx1 == IF cfg.solve_Hk = "Yes" THEN 1 + Len(hk_profile) ELSE 1
        idx2 == IF cfg.solve_Sy = "Yes" THEN idx1 + 1 ELSE idx1
    IN [hk |-> IF Len(hk_values_list) > 0
               THEN [i \in 1..Len(hk_profile) |->
                        IF i <= Len(hk_values_list) THEN hk_values_list[i] ELSE hk_profile[i].k]
               ELSE [i \in 1..Len(hk_profile) |-> hk_profile[i].k],
        sy |-> IF cfg.solve_Sy = "Yes" THEN parameter_values[idx1] ELSE cfg.sy,
        ss |-> IF cfg.solve_Ss = "Yes" THEN parameter_values[idx2] ELSE cfg.ss]

\* process_optimization_results: results_dict, as run_forward_model(**results_dict)
\* uses it (a key that is absent leaves the configured value)
OptimalParams(cfg, result) ==
    LET hk_profile == HkProfile(cfg.hk)
        hk_results == IF cfg.solve_Hk = "Yes"
                      THEN Slice(result, 1, Len(hk_profile)) ELSE <<>>
        idx1 == IF cfg.solve_Hk = "Yes" THEN 1 + Len(hk_profile) ELSE 1
        idx2 == IF cfg.solve_Sy = "Yes" THEN idx1 + 1 ELSE idx1
        \* hk_profile_optimized: one entry per table row, keyed by its range
        optimized == HkProfile([i \in 1..Len(cfg.hk) |->
                        [range |-> cfg.hk[i].range,
                         k |-> IF i <= Len(hk_results) THEN hk_results[i] ELSE cfg.hk[i].k]])
    IN [hk |-> IF Len(hk_results) > 0
               THEN [i \in 1..Len(optimized) |-> optimized[i].k]
               ELSE [i \in 1..Len(hk_profile) |-> hk_profile[i].k],
        sy |-> IF cfg.solve_Sy = "Yes" THEN result[idx1] ELSE cfg.sy,
        ss |-> IF cfg.solve_Ss = "Yes" THEN result[idx2] ELSE cfg.ss]

\* list.index(value), counted from 1, of a value that is in the list
Index(list, value) ==
    CHOOSE i \in 1..Len(list) : list[i] = value /\ \A j \in 1..(i - 1) : list[j] # value

\* the pumping rate, in whole units
Q_m3_hr == 1

\* layer_fluxes: Q * (thick / (sc_top - sc_bottom)) for thick in
\* thickness[sc_top_id:sc_bottom_id+1].  A flux is held as its numerator
\* Q * thick, in units of 1 / (sc_top - sc_bottom).
LayerFluxes(Q, thickness, sc_top_id, sc_bottom_id) ==
    [k \in 1..(IF sc_bottom_id < sc_top_id THEN 0 ELSE sc_bottom_id - sc_top_id + 1) |->
        [lay |-> sc_top_id + k - 1, flux |-> Q * thickness[sc_top_id + k - 1]]]

\* stress_period_data: the entries are appended only under the three
\* selectors spelled out; under any other selector both periods stay empty
StressPeriodData(analysis_period, layer_fluxes) ==
    LET idle == [k \in 1..Len(layer_fluxes) |-> [lay |-> layer_fluxes[k].lay, flux |-> 0]] IN
    IF analysis_period = PumpingOnly THEN <<layer_fluxes>>
    ELSE IF analysis_period = RecoveryOnly THEN <<idle>>
    ELSE IF analysis_period = PumpingAndRecovery THEN <<layer_fluxes, idle>>
    ELSE << <<>>, <<>> >>

\* create_well_package: top.index(sc_top) and bottom.index(sc_bottom) raise
\* ValueError when the level is not in the list
create_well_package(g, time_params, Q, layers) ==
    IF g.point_1_level \in Elems(layers.top) /\ g.point_2_level \in Elems(layers.bottom)
    THEN [status |-> "ok",
          stress_period_data |->
              StressPeriodData(time_params.analysis_period,
                  LayerFluxes(Q, layers.thickness, Index(layers.top, g.point_1_level),
                              Index(layers.bottom, g.point_2_level)))]
    ELSE [status |-> "ValueError", stress_period_data |-> <<>>]

\* a column index that is not set yet, or is None
NoColumn(status) == [status |-> status, col |-> 0]

\* create_observation_package: obs_col_id, the first index i (from 0) with
\* cumulative_distances[i] >= obs_distance, or None
ObsColId(cumulative_distances, distance) ==
    LET at == {i \in 1..Len(cumulative_distances) : cumulative_distances[i] >= distance} IN
    IF at = {} THEN NoColumn("None")
    ELSE [status |-> "set", col |-> (CHOOSE i \in at : \A j \in at : i <= j) - 1]

\* process_simulation_results / calculate_objective_value:
\* find_closest_col_index, min(range(len(distances)), key=lambda i:
\* abs(distances[i] - target_distance)): the first index (from 0) at the
\* least distance
find_closest_col_index(distances, target_distance) ==
    LET far(i) == Abs(distances[i] - target_distance)
        at == {i \in 1..Len(distances) : \A j \in 1..Len(distances) : far(i) <= far(j)}
    IN [status |-> "set", col |-> (CHOOSE i \in at : \A j \in at : i <= j) - 1]

\* create_observation_package: a well gets an entry in
\* screen_layer_indices_dict only if some cumulative distance is >= its
\* distance (obs_col_id is None otherwise, and the well is skipped)
RegisteredWells(wells, cumulative_distances) ==
    {w \in 1..Len(wells) :
        \E i \in 1..Len(cumulative_distances) : cumulative_distances[i] >= wells[w].distance}

\* run_forward_model / run_forward_model_for_optimization up to the solver
\* call: the grids and the packages.  status is "ok" or the exception raised.
BuildModel(cfg) ==
    LET layers == calculate_thicknesses(cfg.geometry)
        cols == calculate_columns(cfg.radial)
        wel == create_well_package(cfg.geometry, get_time_parameters(cfg.analysis_period),
                                   Q_m3_hr, layers)
    IN IF layers.status # "ok" THEN [status |-> layers.status, registered |-> {}, wel |-> <<>>]
       ELSE IF cols.status # "ok" THEN [status |-> cols.status, registered |-> {}, wel |-> <<>>]
       ELSE IF wel.status # "ok"
            THEN [status |-> "ValueError", registered |-> {}, wel |-> <<>>]
       ELSE [status |-> "ok",
             registered |-> RegisteredWells(cfg.wells, cols.cumulative_distances),
             wel |-> wel.stress_period_data]

\* variant: a solver that did not terminate normally is taken as a success
run_simulation_AlwaysOk(success) == "ok"

\* run_simulation: raise RuntimeError unless the solver terminated normally
run_simulation(success) == IF success THEN "ok" ELSE "RuntimeError"

\* variant: no handler around run_simulation in a trial evaluation
TrialSolverOutcome_NoHandler(status) ==
    IF status = "ok" THEN [then |-> "process", value |-> 0]
    ELSE [then |-> "raise", value |-> 0]

\* run_forward_model_for_optimization: try: run_simulation / except
\* Exception: return 1e6
TrialSolverOutcome(status) ==
    IF status = "ok" THEN [then |-> "process", value |-> 0]
    ELSE [then |-> "return", value |-> PenaltyValue]

\* variant: a forward run goes on to the results after a solver failure
ForwardSolverOutcome_GoesOn(status) == [then |-> "process", value |-> 0]

\* run_forward_model: self.run_simulation(sim), with no handler around it
ForwardSolverOutcome(status) ==
    IF status = "ok" THEN [then |-> "process", value |-> 0]
    ELSE [then |-> "raise", value |-> 0]

\* variant: the handler ends without a return statement
ObjectiveOnException_NoReturn(e) == [then |-> "return", value |-> -1]

\* objective_function: except Exception: return 1e6
ObjectiveOnException(e) == [then |-> "return", value |-> PenaltyValue]

\* the observed samples kept for the analysis period: t <= pumping length
\* for "Pumping Only", t > pumping length for "Recovery Only", all otherwise
FilterObserved(times, analysis_period, pumping_length) ==
    IF analysis_period = PumpingOnly
    THEN SelectSeq(times, LAMBDA t : t <= pumping_length)
    ELSE IF analysis_period = RecoveryOnly
    THEN SelectSeq(times, LAMBDA t : t > pumping_length)
    ELSE times

\* One well's comparison.  interpolate_to_smallest_time_step takes
\* np.diff(observed_time).min(), which raises ValueError on fewer than two
\* samples; fit is the (rmse, total residual) of the well against the heads.
CompareWell(times, fit) ==
    IF Len(times) < 2 THEN [status |-> "ValueError", rmse |-> 0, total |-> 0]
    ELSE [status |-> "computed", rmse |-> fit[1], total |-> fit[2]]

\* for well_id in final_observed_time_dict.keys(): ...   The loop has no
\* handler: the first well whose comparison raises ends it, and the wells
\* after it are not reached.
RECURSIVE CompareWells(_, _, _, _)
CompareWells(cfg, fits, w, done) ==
    IF w > Len(cfg.wells) THEN [status |-> "ok", wells |-> done]
    ELSE LET r == CompareWell(FilterObserved(cfg.wells[w].observed_time,
                                             cfg.analysis_period, cfg.pumping_length),
                              fits[w])
         IN IF r.status # "computed" THEN [status |-> r.status, wells |-> done]
            ELSE CompareWells(cfg, fits, w + 1, Append(done, r))

\* the plotters of process_simulation_results / calculate_objective_value:
\* screen_layer_indices_dict[well_id] raises KeyError for a skipped well
Plotters(cfg, registered) ==
    IF \E w \in 1..Len(cfg.wells) : w \notin registered THEN "KeyError" ELSE "ok"

\* variant: the per-well statistics are summed, not averaged
ObjectiveValue_Summed(stats) ==
    LET num_wells == Len(stats)
        total_weighted_rmse == SumSeq([i \in 1..num_wells |-> stats[i].rmse])
        total_residual_error_sum == SumSeq([i \in 1..num_wells |-> stats[i].total])
    IN (weight_rmse * max_total_residual * total_weighted_rmse
        + weight_total_residual * max_rmse * total_residual_error_sum)
       \div max_rmse

\* (weight_rmse * average_rmse / max_rmse)
\*   + (weight_total_residual * average_total_residual_error / max_total_residual)
ObjectiveValue(stats) ==
    LET num_wells == Len(stats)
        total_weighted_rmse == SumSeq([i \in 1..num_wells |-> stats[i].rmse])
        total_residual_error_sum == SumSeq([i \in 1..num_wells |-> stats[i].total])
    IN (weight_rmse * max_total_residual * total_weighted_rmse
        + weight_total_residual * max_rmse * total_residual_error_sum)
       \div (num_wells * max_rmse)

\* calculate_objective_value, after a solver call that succeeded
calculate_objective_value(cfg, registered, fits) ==
    IF Plotters(cfg, registered) # "ok" THEN [status |-> "KeyError", value |-> 0, wells |-> <<>>]
    ELSE LET c == CompareWells(cfg, fits, 1, <<>>) IN
         IF c.status # "ok" THEN [status |-> c.status, value |-> 0, wells |-> c.wells]
         ELSE IF Len(c.wells) = 0
              THEN [status |-> "ZeroDivisionError", value |-> 0, wells |-> c.wells]
         ELSE [status |-> "ok", value |-> ObjectiveValue(c.wells), wells |-> c.wells]

\* process_simulation_results, after a solver call that succeeded:
\* next(iter(plotter.values())) raises StopIteration without wells
process_simulation_results(cfg, registered, fits) ==
    IF Plotters(cfg, registered) # "ok" THEN [status |-> "KeyError", wells |-> <<>>]
    ELSE IF Len(cfg.wells) = 0 THEN [status |-> "StopIteration", wells |-> <<>>]
    ELSE LET c == CompareWells(cfg, fits, 1, <<>>) IN
         [status |-> c.status, wells |-> c.wells]

\* ------------------------------------------------------------ state
VARIABLES
    vr,          \* the VerticalRefinement instance (its nine fields)
    grid,        \* what the last calculate_thicknesses call returned
    calls,       \* number of calculate_thicknesses calls made on the instance
    config,      \* the ModelConfig of the run
    built,       \* BuildModel(config): what every evaluation of the run builds from it
    pc,          \* where main() is: "main", "fmin", "solver", "read", "done", "raised"
    kind,        \* the evaluation under way: "forward", "trial", "final" or "none"
    trial,       \* the parameter vector of the evaluation under way, if there is one
    params,      \* the hk_profile, sy and ss handed to its forward model
    phase,       \* where fmin is in its simplex iteration
    nth,         \* evaluations made in the initial-simplex or shrink phase
    iterations,  \* fmin's iteration counter
    best,        \* sim[0], fsim[0]: the best vertex and its objective value
    workspace,   \* the shared working directory: which invocation ("latest" or
                 \* "earlier") wrote the inputs and the head file it holds
    running,     \* number of solver invocations in progress
    invState,    \* the latest invocation: "none", "running", "failed", "written", "read"
    lastRead,    \* the head file the last evaluation read: its writer and completeness
    well_stats,  \* rmse_dict / total_residual_error_dict of the last evaluation
    retval,      \* what objective_function last returned
    allPenalty,  \* every objective value returned so far was the penalty
    finalRuns,   \* run_forward_model calls made by process_optimization_results
    doc,         \* the document main() returned
    error,       \* the exception that left main()
    interpolated_observed_drawdown,    \* of a DrawdownInterpolation instance
    interpolated_simulated_drawdown,   \* of the same instance: numbers or nan
    stats,       \* what calculate_rmse / calculate_total_residual_error gave
    dd_interpolator,     \* the DrawdownInterpolation instance's constructor fields
    interpolated_times,  \* of the same instance: the common comparison grid
    comparison_times,    \* the time array the simulated series is interpolated from
    cc,          \* a ColumnCalculator instance
    columns,     \* what its calculate_columns call returned
    par,         \* a ParametersConversions instance
    converted,   \* what its calculate_converted_parameters call returned
    sy_values,   \* run_forward_model's specific-yield list for the storage package
    original,    \* what its calculate_original_parameters call returned
    plotter,     \* an ObservedVsSimulatedPlotter instance, its averaged heads computed
    radius,      \* what its radius_influence call returned
    hk_profile,  \* the conductivity profile: the (top, bottom) -> m/day dict, in key order
    layering,    \* the top and bottom lists of the vertical grid
    hk_values,   \* calculate_hydraulic_parameters' list of conductivities per layer
    event,       \* lambda_handler's event: the list under 'Records'
    record,      \* the position of lambda_handler's loop in that list
    simulated,   \* the records for which main() was called, in call order
    response,    \* what lambda_handler returned: its statusCode, or "None"
    obs_distance,  \* an observation well's distance from the pumping well
    obs_col_id,  \* create_observation_package: the column of its observation points
    obs_id       \* process_simulation_results: the column its heads are read from

gridVars == <<vr, grid, calls>>
engineVars == <<config, built, pc, kind, trial, params, phase, nth, iterations, best, workspace,
                running, invState, lastRead, well_stats, retval, allPenalty, finalRuns, doc,
                error>>
compareVars == <<interpolated_observed_drawdown, interpolated_simulated_drawdown, stats,
                 dd_interpolator, interpolated_times, comparison_times>>
columnVars == <<cc, columns>>
conversionVars == <<par, converted, sy_values, original>>
plotterVars == <<plotter, radius>>
hydraulicVars == <<hk_profile, layering, hk_values>>
handlerVars == <<event, record, simulated, response>>
wellVars == <<obs_distance, obs_col_id, obs_id>>
restVars == <<plotter, radius, hk_profile, layering, hk_values, event, record, simulated,
              response, obs_distance, obs_col_id, obs_id>>
vars == <<vr, grid, calls, config, built, pc, kind, trial, params, phase, nth, iterations, best,
          workspace, running, invState, lastRead, well_stats, retval, allPenalty, finalRuns, doc,
          error, interpolated_observed_drawdown, interpolated_simulated_drawdown, stats,
          dd_interpolator, interpolated_times, comparison_times, cc, columns,
          par, converted, sy_values, original, plotter, radius,
          hk_profile, layering, hk_values, event, record, simulated, response,
          obs_distance, obs_col_id, obs_id>>

\* ------------------------------------------------------------ inputs
MaxCalls == 2       \* calls made on one VerticalRefinement instance
MaxVal == 2         \* parameter values range over 1 .. MaxVal
MaxTime == 4        \* observation times range over 1 .. MaxTime
MaxFit == 1         \* a well's rmse and total residual range over 0 .. MaxFit

Levels == {n * Scale : n \in 0..MaxLevel}
SeedThicknesses == {Scale \div 2, Scale, 2 * Scale}
Multipliers == {<<1, 2>>, <<1, 1>>, <<2, 1>>}

\* AquiferGeometry invariant: top > screen-top >= screen-bottom > bottom,
\* multipliers > 0, seed thicknesses > 0
ValidGeometry(g) ==
    /\ g.top_level > g.point_1_level
    /\ g.point_1_level >= g.point_2_level
    /\ g.point_2_level > g.bottom_level
    /\ g.layer_thickness_1 > 0 /\ g.layer_thickness_2 > 0
    /\ \A m \in {g.multiplier_above_screen, g.multiplier_below_screen,
                 g.multiplier_between_screen} : m[1] > 0 /\ m[2] > 0

\* VerticalRefinement.__init__
VerticalRefinement(top, bot, p1, p2, t1, t2, mu, md, mb) ==
    [top_level |-> top, bottom_level |-> bot, point_1_level |-> p1, point_2_level |-> p2,
     layer_thickness_1 |-> t1, layer_thickness_2 |-> t2,
     multiplier_above_screen |-> mu, multiplier_below_screen |-> md,
     multiplier_between_screen |-> mb]

Geometries ==
    {g \in {VerticalRefinement(top, bot, p1, p2, t1, t2, mu, md, mb) :
              top \in Levels, bot \in Levels, p1 \in Levels, p2 \in Levels,
              t1 \in SeedThicknesses, t2 \in SeedThicknesses,
              mu \in Multipliers, md \in Multipliers, mb \in Multipliers} :
       ValidGeometry(g)}

NoCall == NoGrid("none", 0, 0)

\* -- the run configurations
One == <<1, 1>>
BaseGeometry ==
    VerticalRefinement(4 * Scale, 0, 2 * Scale, Scale, Scale, Scale \div 2, One, One, One)
\* valid, but its zone above the screen takes one layer: IndexError
ThinTopGeometry == [BaseGeometry EXCEPT !.point_1_level = 3 * Scale]
\* top = screen top
NoTopGeometry == [BaseGeometry EXCEPT !.top_level = 2 * Scale]
\* screen bottom = aquifer bottom
NoBottomGeometry == [BaseGeometry EXCEPT !.point_2_level = 0]
EngineGeometries == {BaseGeometry, ThinTopGeometry, NoTopGeometry, NoBottomGeometry}

BaseRadial == ColumnCalculator(4 * Scale, Scale, Scale, One)
\* boundary distance = well radius
NoDomainRadial == [BaseRadial EXCEPT !.total_length = Scale]
EngineRadials == {BaseRadial, NoDomainRadial}

PumpingLength == MaxTime \div 2
ObservedSeries ==
    {[i \in 1..PumpingLength |-> i],
     [i \in 1..(MaxTime - PumpingLength) |-> PumpingLength + i],
     [i \in 1..MaxTime |-> i]}
Well(series) == [distance |-> 2 * Scale, observed_time |-> series]
FullWell == Well([i \in 1..MaxTime |-> i])
WellLists ==
    {<<>>} \cup {<<Well(s)>> : s \in ObservedSeries}
           \cup {<<Well(s1), Well(s2)>> : s1 \in ObservedSeries, s2 \in ObservedSeries}

Vals == 1..MaxVal
Flags == {"Yes", "No"}
RunTypes == {"Forward Run", "Optimization"}

BaseConfig ==
    [run_type |-> "Forward Run", solve_Hk |-> "No", solve_Sy |-> "Yes", solve_Ss |-> "No",
     analysis_period |-> PumpingAndRecovery, pumping_length |-> PumpingLength,
     geometry |-> BaseGeometry, radial |-> BaseRadial,
     hk |-> <<[range |-> <<4 * Scale, 0>>, k |-> 1]>>, sy |-> 1, ss |-> 1,
     wells |-> <<FullWell>>]

\* every run type and flag combination on the base inputs
FlagConfigs ==
    {[BaseConfig EXCEPT !.run_type = rt, !.solve_Hk = fh, !.solve_Sy = fy, !.solve_Ss = fs] :
        rt \in RunTypes, fh \in Flags, fy \in Flags, fs \in Flags}

\* the base inputs with one input changed: the geometry, the radial domain,
\* the analysis-period selector, or the observation wells
InputConfigs ==
    {[BaseConfig EXCEPT !.run_type = rt, !.geometry = g] :
        rt \in RunTypes, g \in EngineGeometries}
    \cup {[BaseConfig EXCEPT !.run_type = rt, !.radial = r] :
        rt \in RunTypes, r \in EngineRadials}
    \cup {[BaseConfig EXCEPT !.analysis_period = ap, !.wells = ws] :
        ap \in AnalysisPeriods \cup {"Other"}, ws \in WellLists}
    \cup {[BaseConfig EXCEPT !.run_type = "Optimization", !.analysis_period = ap,
                             !.wells = ws] :
        ap \in AnalysisPeriods \cup {"Other"}, ws \in {w \in WellLists : Len(w) < 2}}
    \cup {[BaseConfig EXCEPT !.run_type = "Optimization", !.analysis_period = PumpingOnly,
                             !.wells = ws] :
        ws \in {w \in WellLists : Len(w) = 2 /\ w[1] = FullWell}}

\* a conductivity table of two rows, one per half of the aquifer
TwoRowTable ==
    <<[range |-> <<4 * Scale, 2 * Scale>>, k |-> 1], [range |-> <<2 * Scale, 0>>, k |-> MaxVal]>>

\* calibrations on the two-row table, with every flag combination
TableConfigs ==
    {[BaseConfig EXCEPT !.run_type = "Optimization", !.hk = TwoRowTable,
                        !.solve_Hk = fh, !.solve_Sy = fy, !.solve_Ss = fs] :
        fh \in Flags, fy \in Flags, fs \in Flags}

Configs == FlagConfigs \cup InputConfigs \cup TableConfigs

\* Section 7's ConfigurationError cases
ValidConfig(cfg) ==
    /\ ValidGeometry(cfg.geometry)
    /\ ValidRadial(cfg.radial)
    /\ cfg.analysis_period \in AnalysisPeriods
    /\ Len(cfg.wells) > 0

\* ------------------------------------------------------------ initial states
NoVector == <<>>
NoBest == [x |-> NoVector, f |-> -1]
NoParams == [hk |-> <<>>, sy |-> 0, ss |-> 0]
NoDocument ==
    [source |-> "none", params |-> NoParams, wells |-> <<>>, optimal |-> NoParams]
NoHeads == [by |-> "none", complete |-> FALSE]
EmptyWorkspace == [inputs |-> "none", heads |-> NoHeads]

GridIdle ==
    /\ vr = BaseGeometry
    /\ grid = NoCall
    /\ calls = 0

EngineIdle(cfg) ==
    /\ config = cfg
    /\ built = BuildModel(cfg)
    /\ pc = "main"
    /\ kind = "none"
    /\ trial = NoVector
    /\ params = NoParams
    /\ phase = "none"
    /\ nth = 0
    /\ iterations = 0
    /\ best = NoBest
    /\ workspace = EmptyWorkspace
    /\ running = 0
    /\ invState = "none"
    /\ lastRead = NoHeads
    /\ well_stats = <<>>
    /\ retval = -1
    /\ allPenalty = TRUE
    /\ finalRuns = 0
    /\ doc = NoDocument
    /\ error = "none"

NoStats == [status |-> "none", rmse |-> NaN, total_residual_error |-> NaN]

\* DrawdownInterpolation.__init__
DrawdownInterpolation(observed_time, observed_DD, simulated_times, simulated_drawdowns, analysis_period, pumping_end_time) ==
    [observed_time |-> observed_time, observed_DD |-> observed_DD,
     simulated_times |-> simulated_times, simulated_drawdowns |-> simulated_drawdowns,
     analysis_period |-> analysis_period, pumping_end_time |-> pumping_end_time]

NoInterpolator == DrawdownInterpolation(<<>>, <<>>, <<>>, <<>>, "none", 0)

InterpolatorIdle ==
    /\ dd_interpolator = NoInterpolator
    /\ interpolated_times = <<>>
    /\ comparison_times = <<>>

CompareIdle ==
    /\ interpolated_observed_drawdown = <<>>
    /\ interpolated_simulated_drawdown = <<>>
    /\ stats = NoStats
    /\ InterpolatorIdle

ColumnIdle ==
    /\ cc = BaseRadial
    /\ columns = NoColumns

ConversionIdle ==
    /\ par = ParametersConversions(<<>>, <<>>, <<>>)
    /\ converted = NoParameters
    /\ sy_values = <<>>
    /\ original = NoParameters

BuildersIdle == ColumnIdle /\ ConversionIdle

NoPlotter == [starting_heads |-> 0, avg_head_at_depth |-> <<>>, distance |-> <<>>, col_length |-> 0]

PlotterIdle ==
    /\ plotter = NoPlotter
    /\ radius = -1

\* the parts of the state that the specifications above leave alone
HydraulicIdle ==
    /\ hk_profile = <<>>
    /\ layering = [top |-> <<>>, bottom |-> <<>>]
    /\ hk_values = <<>>

HandlerIdle ==
    /\ event = <<>>
    /\ record = 1
    /\ simulated = <<>>
    /\ response = "none"

WellIdle ==
    /\ obs_distance = 0
    /\ obs_col_id = NoColumn("unset")
    /\ obs_id = NoColumn("unset")

RestIdle == PlotterIdle /\ HydraulicIdle /\ HandlerIdle /\ WellIdle

Init == GridIdle /\ BuildersIdle /\ CompareIdle /\ RestIdle /\ \E cfg \in Configs : EngineIdle(cfg)

InitGrid ==
    /\ vr \in Geometries
    /\ grid = NoCall
    /\ calls = 0
    /\ EngineIdle(BaseConfig)
    /\ RestIdle
    /\ CompareIdle
    /\ BuildersIdle

\* ------------------------------------------------------------ VerticalRefinement
\* one call of vr.calculate_thicknesses(): the result, and the seed
\* thicknesses the call leaves in the instance
CallThicknesses ==
    /\ calls < MaxCalls
    /\ grid.status \in {"none", "ok"}
    /\ LET r == calculate_thicknesses(vr) IN
         /\ grid' = r
         /\ vr' = [vr EXCEPT !.layer_thickness_1 = r.layer_thickness_1,
                             !.layer_thickness_2 = r.layer_thickness_2]
    /\ calls' = calls + 1
    /\ UNCHANGED engineVars
    /\ UNCHANGED restVars
    /\ UNCHANGED compareVars
    /\ UNCHANGED columnVars
    /\ UNCHANGED conversionVars

NextGrid == CallThicknesses

SpecGrid == InitGrid /\ [][NextGrid]_vars

\* ------------------------------------------------------------ ColumnCalculator
\* RadialDomain inputs: boundary distance, well radius, seed column size and
\* growth multiplier, on the 1/Scale grid
Radials ==
    {r \in {ColumnCalculator(total_length, well_radius, col_size, MF) :
              total_length \in 1..(MaxLevel * Scale), well_radius \in 1..Scale,
              col_size \in SeedThicknesses, MF \in Multipliers} :
       ValidRadial(r)}

InitColumns ==
    /\ cc \in Radials
    /\ columns = NoColumns
    /\ ConversionIdle
    /\ GridIdle
    /\ CompareIdle
    /\ EngineIdle(BaseConfig)
    /\ RestIdle

\* one call of column_calculator.calculate_columns()
CallColumns ==
    /\ columns.status = "none"
    /\ columns' = calculate_columns(cc)
    /\ UNCHANGED cc
    /\ UNCHANGED conversionVars
    /\ UNCHANGED gridVars
    /\ UNCHANGED restVars
    /\ UNCHANGED compareVars
    /\ UNCHANGED engineVars

NextColumns == CallColumns

SpecColumns == InitColumns /\ [][NextColumns]_vars

\* ------------------------------------------------------------ observation wells
\* a radial grid and one observation well, at any distance on the grid's scale
InitWells ==
    /\ cc \in {r \in Radials : calculate_columns(r).status = "ok"}
    /\ columns = NoColumns
    /\ obs_distance \in 1..((MaxLevel + 1) * Scale)
    /\ obs_col_id = NoColumn("unset")
    /\ obs_id = NoColumn("unset")
    /\ PlotterIdle
    /\ HydraulicIdle
    /\ HandlerIdle
    /\ ConversionIdle
    /\ GridIdle
    /\ CompareIdle
    /\ EngineIdle(BaseConfig)

WellOthersUnchanged ==
    /\ UNCHANGED <<cc, columns, obs_distance>>
    /\ UNCHANGED plotterVars
    /\ UNCHANGED hydraulicVars
    /\ UNCHANGED handlerVars
    /\ UNCHANGED gridVars
    /\ UNCHANGED conversionVars
    /\ UNCHANGED compareVars
    /\ UNCHANGED engineVars

\* create_observation_package, for the one well
CreateObservationPackage ==
    /\ columns.status = "ok"
    /\ obs_col_id = NoColumn("unset")
    /\ obs_col_id' = ObsColId(columns.cumulative_distances, obs_distance)
    /\ UNCHANGED obs_id
    /\ WellOthersUnchanged

\* process_simulation_results: obs_well_col_indices[well_id], for a well
\* that create_observation_package has registered
FindClosestColumn ==
    /\ obs_col_id.status = "set"
    /\ obs_id = NoColumn("unset")
    /\ obs_id' = find_closest_col_index(columns.cumulative_distances, obs_distance)
    /\ UNCHANGED obs_col_id
    /\ WellOthersUnchanged

NextWells ==
    \/ CallColumns
    \/ CreateObservationPackage
    \/ FindClosestColumn

SpecWells == InitWells /\ [][NextWells]_vars

\* ------------------------------------------------------------ radius of influence
MaxHead == 3        \* the static head, in tenths; averaged heads reach one tenth above it

\* the radial grids the averaged heads are drawn on: growth multiplier 1
PlotterRadials ==
    {r \in Radials : /\ r.MF = One
                     /\ r.col_size = Scale
                     /\ r.well_radius = Scale \div 2
                     /\ calculate_columns(r).status = "ok"}

\* a plotter after its averaged heads were computed: one head per column,
\* distance = col_centroids, col_length = the boundary distance
InitInfluence ==
    /\ \E r \in PlotterRadials :
         LET c == calculate_columns(r) IN
         \E heads \in [1..c.ncol -> 0..(MaxHead + 1)] :
            plotter = [starting_heads |-> MaxHead, avg_head_at_depth |-> heads,
                       distance |-> c.col_centroids, col_length |-> r.total_length]
    /\ radius = -1
    /\ HydraulicIdle
    /\ HandlerIdle
    /\ WellIdle
    /\ GridIdle
    /\ BuildersIdle
    /\ CompareIdle
    /\ EngineIdle(BaseConfig)

\* first_plotter.radius_influence()
CallRadiusInfluence ==
    /\ radius = -1
    /\ radius' = radius_influence(plotter)
    /\ UNCHANGED plotter
    /\ UNCHANGED hydraulicVars
    /\ UNCHANGED handlerVars
    /\ UNCHANGED wellVars
    /\ UNCHANGED gridVars
    /\ UNCHANGED columnVars
    /\ UNCHANGED conversionVars
    /\ UNCHANGED compareVars
    /\ UNCHANGED engineVars

NextInfluence == CallRadiusInfluence

SpecInfluence == InitInfluence /\ [][NextInfluence]_vars

\* ------------------------------------------------------------ layer conductivities
\* the levels of the layers and of the profile's intervals, in whole units
HkLevels == 0..MaxLevel

\* conductivities of the profile, in m/day
HkDayValues == {m_per_day_to_m_per_sec_factor \div 100, m_per_day_to_m_per_sec_factor \div 50}

\* the intervals of a profile: (top, bottom) with top above bottom
HkRanges == {r \in HkLevels \X HkLevels : r[1] > r[2]}

\* profiles of at most two intervals; the keys of a dict are distinct
HkProfiles ==
    {<<>>}
    \cup {<<[range |-> r, k |-> k]>> : r \in HkRanges, k \in HkDayValues}
    \cup {q \in {<<[range |-> r1, k |-> k1], [range |-> r2, k |-> k2]>> :
                    r1 \in HkRanges, r2 \in HkRanges,
                    k1 \in HkDayValues, k2 \in HkDayValues} :
            q[1].range # q[2].range /\ q[1].k # q[2].k}

\* one or two layers between decreasing levels
Layerings ==
    {[top |-> PopLast(b), bottom |-> Pop0(b)] :
        b \in {q \in UNION {[1..n -> HkLevels] : n \in 2..3} :
                  \A i \in 1..(Len(q) - 1) : q[i] > q[i + 1]}}

InitHydraulic ==
    /\ hk_profile \in HkProfiles
    /\ layering \in Layerings
    /\ hk_values = <<>>
    /\ PlotterIdle
    /\ HandlerIdle
    /\ WellIdle
    /\ GridIdle
    /\ BuildersIdle
    /\ CompareIdle
    /\ EngineIdle(BaseConfig)

\* self.calculate_hydraulic_parameters(hk_profile, sy, ss, col_centroids,
\* delr, thickness, converter, top, bottom), on a grid of one column
CalculateHydraulicParameters ==
    /\ hk_values = <<>>
    /\ LET thickness == [i \in 1..Len(layering.top) |-> layering.top[i] - layering.bottom[i]]
           r == calculate_hydraulic_parameters(hk_profile, 1, 1, <<1>>, <<1>>, thickness,
                                               layering.top, layering.bottom)
       IN /\ hk_values' = r.hk_values
          /\ par' = r.par
          /\ converted' = r.converted
    /\ UNCHANGED <<hk_profile, layering, sy_values, original>>
    /\ UNCHANGED plotterVars
    /\ UNCHANGED handlerVars
    /\ UNCHANGED wellVars
    /\ UNCHANGED gridVars
    /\ UNCHANGED columnVars
    /\ UNCHANGED compareVars
    /\ UNCHANGED engineVars

NextHydraulic == CalculateHydraulicParameters

SpecHydraulic == InitHydraulic /\ [][NextHydraulic]_vars

\* ------------------------------------------------------------ lambda_handler
MaxRecords == 3     \* records of an event

\* an SQS record: its body carries model_inputs, carries none, or is not JSON
RecordKinds == {"model_inputs", "empty", "malformed"}

Events == UNION {[1..n -> RecordKinds] : n \in 0..MaxRecords}

InitHandler ==
    /\ event \in Events
    /\ record = 1
    /\ simulated = <<>>
    /\ response = "none"
    /\ PlotterIdle
    /\ HydraulicIdle
    /\ WellIdle
    /\ GridIdle
    /\ BuildersIdle
    /\ CompareIdle
    /\ EngineIdle(BaseConfig)

HandlerOthersUnchanged ==
    /\ UNCHANGED plotterVars
    /\ UNCHANGED wellVars
    /\ UNCHANGED hydraulicVars
    /\ UNCHANGED gridVars
    /\ UNCHANGED columnVars
    /\ UNCHANGED conversionVars
    /\ UNCHANGED compareVars
    /\ UNCHANGED engineVars

\* one pass of "for record in event.get('Records', [])": json.loads raises on
\* a body that is not JSON, a body without model_inputs is passed over, and
\* otherwise main() is called; the handler returns from inside the loop
\* after main(), and from the record's except clause
HandleRecord ==
    /\ response = "none"
    /\ record <= Len(event)
    /\ CASE event[record] = "malformed" ->
              /\ response' = "500"
              /\ UNCHANGED <<record, simulated>>
         [] event[record] = "empty" ->
              /\ record' = record + 1
              /\ UNCHANGED <<simulated, response>>
         [] event[record] = "model_inputs" ->
              /\ simulated' = Append(simulated, record)
              /\ \E raised \in BOOLEAN : response' = IF raised THEN "500" ELSE "200"
              /\ UNCHANGED record
    /\ UNCHANGED event
    /\ HandlerOthersUnchanged

\* "if not event.get('Records')": main() on the default input file
RunDefault ==
    /\ response = "none"
    /\ event = <<>>
    /\ \E raised \in BOOLEAN : response' = IF raised THEN "500" ELSE "200"
    /\ UNCHANGED <<event, record, simulated>>
    /\ HandlerOthersUnchanged

\* the loop ended without a return and there were records: the function
\* ends without a return statement
FallThrough ==
    /\ response = "none"
    /\ event # <<>>
    /\ record > Len(event)
    /\ response' = "None"
    /\ UNCHANGED <<event, record, simulated>>
    /\ HandlerOthersUnchanged

NextHandler ==
    \/ HandleRecord
    \/ RunDefault
    \/ FallThrough

SpecHandler == InitHandler /\ [][NextHandler]_vars

\* ------------------------------------------------------------ ParametersConversions
MaxCols == 2        \* columns of the grid handed to the transformer
MaxLays == 2        \* layers of the grid handed to the transformer

\* widths, heights and original values, in whole units
Sizes == {1, 2}

IncreasingSeqs(n, values) ==
    {q \in [1..n -> values] : \A i \in 1..(n - 1) : q[i] < q[i + 1]}

\* par = ParametersConversions(col_centroids, delr, thickness): centroids
\* increase outwards, and there is one width per centroid
InitConversion ==
    /\ \E ncol \in 1..MaxCols, nlay \in 1..MaxLays :
         \E distance \in IncreasingSeqs(ncol, 1..(MaxCols + 1)),
            columnsWidths \in [1..ncol -> Sizes],
            layersHeights \in [1..nlay -> Sizes] :
              par = ParametersConversions(distance, columnsWidths, layersHeights)
    /\ converted = NoParameters
    /\ sy_values = <<>>
    /\ original = NoParameters
    /\ ColumnIdle
    /\ GridIdle
    /\ CompareIdle
    /\ EngineIdle(BaseConfig)
    /\ RestIdle

\* par.set_original_parameters(hk_values, sy, ss): one conductivity per layer
SetOriginalParameters ==
    /\ par._original_hk = <<>>
    /\ \E hk \in [1..Len(par._layers_heights) -> Sizes], sy \in Sizes, ss \in Sizes :
         par' = set_original_parameters(par, hk, sy, ss)
    /\ UNCHANGED <<converted, sy_values, original>>
    /\ UNCHANGED columnVars
    /\ UNCHANGED gridVars
    /\ UNCHANGED restVars
    /\ UNCHANGED compareVars
    /\ UNCHANGED engineVars

\* hk_con, sy_con, ss_con = par.calculate_converted_parameters()
CalculateConverted ==
    /\ par._original_hk # <<>>
    /\ converted.status = "none"
    /\ converted' = calculate_converted_parameters(par)
    /\ UNCHANGED <<par, sy_values, original>>
    /\ UNCHANGED columnVars
    /\ UNCHANGED gridVars
    /\ UNCHANGED restVars
    /\ UNCHANGED compareVars
    /\ UNCHANGED engineVars

\* variant: the transformer's specific-yield vector is handed on as it is
StorageValues_AsReturned(nlay, sy_con) == sy_con

\* sy_values = [sy_con for _ in range(nlay)]
StorageValues(nlay, sy_con) == [l \in 1..nlay |-> sy_con]

\* run_forward_model, storage package: nlay = len(top)
CreateStorageValues ==
    /\ converted.status = "returned"
    /\ sy_values = <<>>
    /\ sy_values' = StorageValues(Len(par._layers_heights), converted.sy)
    /\ UNCHANGED <<par, converted, original>>
    /\ UNCHANGED columnVars
    /\ UNCHANGED gridVars
    /\ UNCHANGED restVars
    /\ UNCHANGED compareVars
    /\ UNCHANGED engineVars

\* par.set_converted_parameters(hk_con, sy_con, ss_con): the forward outputs
\* are stored for the inverse transform
SetConvertedParameters ==
    /\ converted.status = "returned"
    /\ par._converted_hk = <<>>
    /\ par' = set_converted_parameters(par, converted.hk, converted.sy, converted.ss)
    /\ UNCHANGED <<converted, sy_values, original>>
    /\ UNCHANGED columnVars
    /\ UNCHANGED gridVars
    /\ UNCHANGED restVars
    /\ UNCHANGED compareVars
    /\ UNCHANGED engineVars

\* par.calculate_original_parameters()
CalculateOriginal ==
    /\ par._converted_hk # <<>>
    /\ original.status = "none"
    /\ original' = calculate_original_parameters(par)
    /\ UNCHANGED <<par, converted, sy_values>>
    /\ UNCHANGED columnVars
    /\ UNCHANGED gridVars
    /\ UNCHANGED restVars
    /\ UNCHANGED compareVars
    /\ UNCHANGED engineVars

NextConversion ==
    \/ SetOriginalParameters
    \/ CalculateConverted
    \/ CreateStorageValues
    \/ SetConvertedParameters
    \/ CalculateOriginal

SpecConversion == InitConversion /\ [][NextConversion]_vars

\* ------------------------------------------------------------ DrawdownInterpolation
MaxSamples == 2     \* points of the resampled time grid
MaxDD == 2          \* drawdowns range over 0 .. MaxDD

Drawdowns == {Num(v) : v \in 0..MaxDD}
SeriesOf(values) == UNION {[1..n -> values] : n \in 1..MaxSamples}

InitCompare ==
    /\ interpolated_observed_drawdown \in SeriesOf(Drawdowns)
    /\ interpolated_simulated_drawdown \in
         {sim \in SeriesOf(Drawdowns \cup {NaN}) :
             Len(sim) = Len(interpolated_observed_drawdown)}
    /\ stats = NoStats
    /\ InterpolatorIdle
    /\ GridIdle
    /\ BuildersIdle
    /\ EngineIdle(BaseConfig)
    /\ RestIdle

\* interp.calculate_rmse() and interp.calculate_total_residual_error(), as
\* process_drawdown_interpolation calls them after the two interpolations
ComputeStatistics ==
    /\ stats.status = "none"
    /\ interpolated_simulated_drawdown # <<>>
    /\ stats' = [status |-> "returned",
                 rmse |-> calculate_rmse(interpolated_observed_drawdown,
                                         interpolated_simulated_drawdown),
                 total_residual_error |->
                     calculate_total_residual_error(interpolated_observed_drawdown,
                                                    interpolated_simulated_drawdown)]
    /\ UNCHANGED <<interpolated_observed_drawdown, interpolated_simulated_drawdown,
                   dd_interpolator, interpolated_times, comparison_times>>
    /\ UNCHANGED gridVars
    /\ UNCHANGED restVars
    /\ UNCHANGED columnVars
    /\ UNCHANGED conversionVars
    /\ UNCHANGED engineVars

NextCompare == ComputeStatistics

SpecCompare == InitCompare /\ [][NextCompare]_vars

\* -- one well's comparison, from the series to the statistics
\* observed times: at least one sample, strictly increasing
ObservedTimes ==
    UNION {IncreasingSeqs(n, 0..(MaxTime + 1)) : n \in 1..(MaxSamples + 1)}

\* drawdowns of a series of n samples: rising, or with one peak
DrawdownsOf(n) ==
    {[i \in 1..n |-> i - 1], [i \in 1..n |-> IF i = 2 THEN MaxDD ELSE 0]}

\* the simulated series handed to the constructor: two samples of its own,
\* the observed series itself, or the observed series counted from the end
\* of pumping
SimulatedSeries(observed_time, observed_DD, pumping_end_time) ==
    {[times |-> t, dd |-> d] : t \in IncreasingSeqs(2, 0..(MaxTime + 1)), d \in DrawdownsOf(2)}
    \cup {[times |-> observed_time, dd |-> observed_DD]}
    \cup {[times |-> [k \in 1..Len(observed_time) |-> observed_time[k] - pumping_end_time],
           dd |-> observed_DD]}

InitInterpolation ==
    /\ \E observed_time \in ObservedTimes, analysis_period \in AnalysisPeriods :
         \E observed_DD \in DrawdownsOf(Len(observed_time)) :
            \E sim \in SimulatedSeries(observed_time, observed_DD, PumpingLength) :
               dd_interpolator = DrawdownInterpolation(observed_time, observed_DD,
                                     sim.times, sim.dd, analysis_period, PumpingLength)
    /\ interpolated_times = <<>>
    /\ comparison_times = <<>>
    /\ interpolated_observed_drawdown = <<>>
    /\ interpolated_simulated_drawdown = <<>>
    /\ stats = NoStats
    /\ GridIdle
    /\ BuildersIdle
    /\ EngineIdle(BaseConfig)
    /\ RestIdle

\* dd_interpolator.interpolate_to_smallest_time_step(); np.diff(...).min()
\* raises ValueError on fewer than two observed samples
InterpolateToSmallestTimeStep ==
    /\ stats.status = "none"
    /\ interpolated_times = <<>>
    /\ dd_interpolator # NoInterpolator
    /\ IF Len(dd_interpolator.observed_time) < 2
       THEN /\ stats' = [NoStats EXCEPT !.status = "ValueError"]
            /\ UNCHANGED <<interpolated_times, interpolated_observed_drawdown>>
       ELSE LET r == interpolate_to_smallest_time_step(dd_interpolator) IN
            /\ interpolated_times' = r.interpolated_times
            /\ interpolated_observed_drawdown' = r.interpolated_observed_drawdown
            /\ UNCHANGED stats
    /\ UNCHANGED <<dd_interpolator, comparison_times, interpolated_simulated_drawdown>>
    /\ UNCHANGED gridVars
    /\ UNCHANGED restVars
    /\ UNCHANGED columnVars
    /\ UNCHANGED conversionVars
    /\ UNCHANGED engineVars

\* dd_interpolator.interpolate_simulated_to_observed()
InterpolateSimulatedToObserved ==
    /\ interpolated_times # <<>>
    /\ interpolated_simulated_drawdown = <<>>
    /\ comparison_times' = ComparisonTimes(dd_interpolator)
    /\ interpolated_simulated_drawdown' =
           interpolate_simulated_to_observed(dd_interpolator, interpolated_times)
    /\ UNCHANGED <<dd_interpolator, interpolated_times, interpolated_observed_drawdown, stats>>
    /\ UNCHANGED gridVars
    /\ UNCHANGED restVars
    /\ UNCHANGED columnVars
    /\ UNCHANGED conversionVars
    /\ UNCHANGED engineVars

NextInterpolation ==
    \/ InterpolateToSmallestTimeStep
    \/ InterpolateSimulatedToObserved
    \/ ComputeStatistics

SpecInterpolation == InitInterpolation /\ [][NextInterpolation]_vars

\* ------------------------------------------------------------ fmin
\* Nelder-Mead as scipy.optimize.fmin runs it: N + 1 evaluations build the
\* simplex (x0, then x0 with one coordinate moved); each iteration evaluates
\* the reflected point, then at most an expanded or a contracted point, then
\* on a failed contraction the N shrunk vertices; the loop runs while
\* iterations < maxiter and the simplex has not converged; sim[0] is returned.
NumParams == Len(initial_guess(config))
Moved(v) == (v % MaxVal) + 1

\* the vectors fmin asks for: x0, then x0 with one coordinate perturbed, for
\* the initial simplex; afterwards a point of the search space, taken here
\* from the points that differ from x0 in at most one coordinate
TrialVectors ==
    LET x0 == initial_guess(config) IN
    IF phase = "initial"
    THEN IF nth = 0 THEN {x0} ELSE {[x0 EXCEPT ![nth] = Moved(@)]}
    ELSE {x0} \cup {[x0 EXCEPT ![i] = v] : i \in 1..NumParams, v \in Vals}

\* variant: an iteration that is not counted
EndIteration_NotCounted ==
    /\ iterations' = iterations
    /\ nth' = 0
    /\ phase' \in {"reflect", "return"}

\* the iteration counter and phase once an iteration is over
EndIteration ==
    /\ iterations' = iterations + 1
    /\ nth' = 0
    /\ phase' \in (IF iterations + 1 < maxiter THEN {"reflect", "return"} ELSE {"return"})

\* fmin takes the objective value f of the vector vec it asked for
FminReceive(vec, f) ==
    /\ pc' = "fmin"
    /\ trial' = NoVector
    /\ params' = NoParams
    /\ retval' = f
    /\ allPenalty' = (allPenalty /\ f = PenaltyValue)
    /\ best' \in (IF best = NoBest \/ f < best.f THEN {[x |-> vec, f |-> f]}
                  ELSE IF f = best.f THEN {best, [x |-> vec, f |-> f]}
                  ELSE {best})
    /\ CASE phase = "initial" ->
              IF nth + 1 = NumParams + 1
              THEN /\ iterations' = 1
                   /\ nth' = 0
                   /\ phase' \in (IF 1 < maxiter THEN {"reflect", "return"} ELSE {"return"})
              ELSE /\ nth' = nth + 1
                   /\ UNCHANGED <<iterations, phase>>
         [] phase = "reflect" ->
              IF f < best.f
              THEN /\ phase' = "expand"
                   /\ UNCHANGED <<iterations, nth>>
              ELSE \/ EndIteration
                   \/ /\ phase' = "contract"
                      /\ UNCHANGED <<iterations, nth>>
         [] phase = "expand" -> EndIteration
         [] phase = "contract" ->
              \/ EndIteration
              \/ /\ phase' = "shrink"
                 /\ nth' = 0
                 /\ UNCHANGED iterations
         [] phase = "shrink" ->
              IF nth + 1 = NumParams
              THEN EndIteration
              ELSE /\ nth' = nth + 1
                   /\ UNCHANGED <<iterations, phase>>

\* ------------------------------------------------------------ ModelSimulator
\* variant: the final run made with the configured parameters
EvalParams_Configured(cfg, kd, vec) ==
    IF kd = "trial" THEN ObjectiveParams(cfg, vec) ELSE ConfiguredParams(cfg)

\* the parameters of an evaluation: run_forward_model's defaults, the decoded
\* trial vector, or process_optimization_results' results_dict
EvalParams(cfg, kd, vec) ==
    IF kd = "trial" THEN ObjectiveParams(cfg, vec)
    ELSE IF kd = "final" THEN OptimalParams(cfg, vec)
    ELSE ConfiguredParams(cfg)

Raise(e) ==
    /\ pc' = "raised"
    /\ error' = e
    /\ doc' = NoDocument

\* sim.write_simulation() and the start of the solver: a new invocation; the
\* head file of the invocation before, if there is one, is still in place
StartSolver ==
    /\ pc' = "solver"
    /\ workspace' = [inputs |-> "latest",
                     heads |-> [workspace.heads EXCEPT
                                  !.by = IF @ = "none" THEN "none" ELSE "earlier"]]
    /\ running' = running + 1
    /\ invState' = "running"

\* run_forward_model / run_forward_model_for_optimization from their first
\* line to the solver call: build the grids and packages, write the solver
\* inputs and start the solver.  An exception on the way leaves a forward
\* run, and becomes the penalty in objective_function.
BeginEvaluation(kd, vec) ==
    LET b == built IN   \* the build steps, up to sim.write_simulation()
    IF b.status = "ok"
    THEN /\ StartSolver
         /\ trial' = vec
         /\ params' = EvalParams(config, kd, vec)
         /\ UNCHANGED <<phase, nth, iterations, best, retval, allPenalty, doc, error,
                        lastRead, well_stats>>
    ELSE /\ UNCHANGED <<workspace, running, invState, lastRead, well_stats>>
         /\ IF kd = "trial"
            THEN /\ FminReceive(vec, ObjectiveOnException(b.status).value)
                 /\ UNCHANGED <<doc, error>>
            ELSE /\ Raise(b.status)
                 /\ trial' = vec
                 /\ params' = EvalParams(config, kd, vec)
                 /\ UNCHANGED <<phase, nth, iterations, best, retval, allPenalty>>

\* main(): run_type.startswith("Forward Run") -> simulator.run_forward_model(...)
StartForwardRun ==
    /\ pc = "main"
    /\ config.run_type = "Forward Run"
    /\ kind' = "forward"
    /\ BeginEvaluation("forward", NoVector)
    /\ UNCHANGED <<config, built, finalRuns>>
    /\ UNCHANGED gridVars
    /\ UNCHANGED restVars
    /\ UNCHANGED columnVars
    /\ UNCHANGED conversionVars
    /\ UNCHANGED compareVars

\* main(): otherwise simulator.run_optimization(), up to the call of fmin;
\* it returns None when no parameter is flagged
StartOptimization ==
    /\ pc = "main"
    /\ config.run_type # "Forward Run"
    /\ IF initial_guess(config) = <<>>
       THEN /\ pc' = "done"
            /\ doc' = NoDocument
            /\ UNCHANGED phase
       ELSE /\ pc' = "fmin"
            /\ phase' = "initial"
            /\ UNCHANGED doc
    /\ UNCHANGED <<config, built, kind, trial, params, nth, iterations, best, workspace, running,
                   invState, lastRead, well_stats, retval, allPenalty, finalRuns, error>>
    /\ UNCHANGED gridVars
    /\ UNCHANGED restVars
    /\ UNCHANGED columnVars
    /\ UNCHANGED conversionVars
    /\ UNCHANGED compareVars

\* fmin calls objective_function(x) for the next vector of its iteration
EvaluateTrial ==
    /\ pc = "fmin"
    /\ phase \in {"initial", "reflect", "expand", "contract", "shrink"}
    /\ \E vec \in TrialVectors :
         /\ kind' = "trial"
         /\ BeginEvaluation("trial", vec)
    /\ UNCHANGED <<config, built, finalRuns>>
    /\ UNCHANGED gridVars
    /\ UNCHANGED restVars
    /\ UNCHANGED columnVars
    /\ UNCHANGED conversionVars
    /\ UNCHANGED compareVars

\* the solver call of run_simulation returns: normally, with its head file
\* written, or not, with the head file as it was or partly written
SolverReturns ==
    /\ pc = "solver"
    /\ \E success \in BOOLEAN, partial \in BOOLEAN :
         LET status == run_simulation(success)
             outcome == IF kind = "trial" THEN TrialSolverOutcome(status)
                        ELSE ForwardSolverOutcome(status)
         IN
         /\ success => ~partial
         /\ invState' = IF success THEN "written" ELSE "failed"
         /\ running' = running - 1
         /\ workspace' =
              IF success \/ partial
              THEN [workspace EXCEPT !.heads = [by |-> "latest", complete |-> success]]
              ELSE workspace
         /\ CASE outcome.then = "process" ->
                   /\ pc' = "read"
                   /\ UNCHANGED <<trial, params, phase, nth, iterations, best, retval, allPenalty,
                                  doc, error>>
              [] outcome.then = "return" ->
                   /\ FminReceive(trial, outcome.value)
                   /\ UNCHANGED <<doc, error>>
              [] outcome.then = "raise" ->
                   /\ Raise(status)
                   /\ UNCHANGED <<trial, params, phase, nth, iterations, best, retval, allPenalty>>
    /\ UNCHANGED <<config, built, kind, lastRead, well_stats, finalRuns>>
    /\ UNCHANGED gridVars
    /\ UNCHANGED restVars
    /\ UNCHANGED columnVars
    /\ UNCHANGED conversionVars
    /\ UNCHANGED compareVars

\* the well fits the head file gives: one (rmse, total residual) per well
WellFits == {f \in (0..MaxFit) \X (0..MaxFit) : f[1] <= f[2] /\ (f[1] = 0 <=> f[2] = 0)}

\* after the solver call: calculate_objective_value in a trial,
\* process_simulation_results and the returned document in a forward run
ProcessResults ==
    /\ pc = "read"
    /\ lastRead' = workspace.heads
    /\ invState' = "read"
    /\ \E fits \in [1..Len(config.wells) -> WellFits] :
         LET registered == built.registered IN
         IF kind = "trial"
         THEN LET r == calculate_objective_value(config, registered, fits) IN
              /\ well_stats' = r.wells
              /\ FminReceive(trial, IF r.status = "ok" THEN r.value
                                    ELSE ObjectiveOnException(r.status).value)
              /\ UNCHANGED <<doc, error>>
         ELSE LET r == process_simulation_results(config, registered, fits) IN
              /\ well_stats' = r.wells
              /\ IF r.status = "ok"
                 THEN /\ pc' = "done"
                      /\ doc' = [source |-> kind,
                                 params |-> EvalParams(config, kind, trial),
                                 wells |-> r.wells,
                                 optimal |-> IF kind = "final"
                                             THEN OptimalParams(config, trial)
                                             ELSE NoParams]
                      /\ UNCHANGED error
                 ELSE Raise(r.status)
              /\ UNCHANGED <<trial, params, phase, nth, iterations, best, retval, allPenalty>>
    /\ UNCHANGED <<config, built, kind, workspace, running, finalRuns>>
    /\ UNCHANGED gridVars
    /\ UNCHANGED restVars
    /\ UNCHANGED columnVars
    /\ UNCHANGED conversionVars
    /\ UNCHANGED compareVars

\* fmin has returned sim[0]: process_optimization_results decodes it and
\* calls run_forward_model(**results_dict)
ProcessOptimizationResults ==
    /\ pc = "fmin"
    /\ phase = "return"
    /\ phase' = "returned"
    /\ kind' = "final"
    /\ trial' = best.x
    /\ params' = EvalParams(config, "final", best.x)
    /\ finalRuns' = finalRuns + 1
    /\ IF built.status = "ok"
       THEN /\ StartSolver
            /\ UNCHANGED <<doc, error>>
       ELSE /\ Raise(built.status)
            /\ UNCHANGED <<workspace, running, invState>>
    /\ UNCHANGED <<config, built, nth, iterations, best, retval, allPenalty, lastRead,
                   well_stats>>
    /\ UNCHANGED gridVars
    /\ UNCHANGED restVars
    /\ UNCHANGED columnVars
    /\ UNCHANGED conversionVars
    /\ UNCHANGED compareVars

Next ==
    \/ StartForwardRun
    \/ StartOptimization
    \/ EvaluateTrial
    \/ SolverReturns
    \/ ProcessResults
    \/ ProcessOptimizationResults

Spec == Init /\ [][Next]_vars

\* the runs whose termination is checked: one well at most, two flagged
\* parameters at most, the whole test as analysis period
FairConfigs ==
    {cfg \in Configs : /\ Len(cfg.wells) < 2
                       /\ Len(initial_guess(cfg)) <= 2
                       /\ cfg.analysis_period = PumpingAndRecovery}

InitFair == GridIdle /\ BuildersIdle /\ CompareIdle /\ RestIdle /\ \E cfg \in FairConfigs : EngineIdle(cfg)

\* every step of a run is a step of the one thread that runs it: a call that
\* is under way returns
SpecFair == InitFair /\ [][Next]_vars /\ WF_vars(Next)

\* ------------------------------------------------------------ properties
Continuing == {"initial", "reflect", "expand", "contract", "shrink", "return"}

\* C1: when the solver fails while a trial vector is evaluated, the objective
\* function returns exactly the penalty 1e6 for it, no exception leaves it,
\* and control is back in fmin, which goes on with its search.
C1_TrialFailureIsPenalty ==
    (kind = "trial" /\ invState = "failed") =>
        /\ pc = "fmin"
        /\ retval = PenaltyValue
        /\ error = "none"
        /\ phase \in Continuing

\* a solver failure in a trial, after which fmin asks for more vectors
C1_Witness ==
    /\ kind = "trial"
    /\ invState = "failed"
    /\ retval = PenaltyValue
    /\ pc = "fmin"
    /\ phase \in {"initial", "reflect", "contract", "shrink"}

\* C2: in an optimization with at least one flagged parameter, once fmin has
\* returned the forward model is run exactly once more, with the parameters
\* decoded from fmin's best vector, and the document returned is the output
\* of that run.
C2_FinalRunWithBestVector ==
    /\ finalRuns <= 1
    /\ finalRuns = 1 <=> phase = "returned"
    /\ kind = "final" <=> phase = "returned"
    /\ kind = "final" => trial = best.x
    /\ (config.run_type = "Optimization" /\ NumParams > 0 /\ pc = "done") =>
          /\ finalRuns = 1
          /\ doc.source = "final"
          /\ doc.params = OptimalParams(config, best.x)
          /\ doc.optimal = OptimalParams(config, best.x)

\* an optimization that delivered a document for a best vector other than x0
C2_Witness ==
    /\ config.run_type = "Optimization"
    /\ pc = "done"
    /\ doc.source = "final"
    /\ best.x # initial_guess(config)
    /\ doc.params # ConfiguredParams(config)

\* C3: a solver failure in a forward run (standalone, or the final run of an
\* optimization) leaves main() as RuntimeError: no document is returned and
\* no objective value is produced for it.
C3_ForwardFailurePropagates ==
    (kind \in {"forward", "final"} /\ invState = "failed") =>
        /\ pc = "raised"
        /\ error = "RuntimeError"
        /\ doc = NoDocument
        /\ kind = "forward" => retval = -1

\* the final run of an optimization failed in the solver
C3_Witness ==
    /\ kind = "final"
    /\ invState = "failed"
    /\ pc = "raised"

ReadyHeads == [by |-> "latest", complete |-> TRUE]

\* C4: at most one solver invocation is in progress; an invocation starts
\* only when the one before it has failed or its outputs have been read; and
\* the head file an evaluation reads is the complete one its own solver call
\* wrote.
C4_OneInvocationAtATime ==
    /\ [](running <= 1)
    /\ [](lastRead \in {NoHeads, ReadyHeads})
    /\ [](pc = "read" => workspace.heads = ReadyHeads)
    /\ [][invState' = "running" => invState \in {"none", "failed", "read"}]_vars

\* the final run has read the head file its own solver call wrote, after
\* every trial invocation before it failed
C4_Witness ==
    /\ kind = "final"
    /\ pc = "done"
    /\ invState = "read"
    /\ lastRead = ReadyHeads
    /\ allPenalty

\* C5: fmin's iteration counter never passes maxiter, and every optimization
\* with a flagged parameter reaches the final forward run, also when every
\* trial evaluation returned the penalty.
C5_SearchTerminates ==
    /\ [](iterations <= maxiter)
    /\ (config.run_type = "Optimization" /\ NumParams > 0 /\ pc = "main") ~> (finalRuns = 1)

\* the final run is reached at the iteration cap after solver failures only
C5_Witness ==
    /\ finalRuns = 1
    /\ iterations = maxiter
    /\ allPenalty
    /\ invState = "running"
    /\ lastRead = NoHeads

\* C6: with an invalid geometry, boundary distance, analysis-period selector
\* or an empty well list, no solver invocation is ever started.
C6_InvalidConfigNeverSolved ==
    ~ValidConfig(config) => (invState = "none" /\ running = 0)

Usable(cfg, w) ==
    Len(FilterObserved(cfg.wells[w].observed_time, cfg.analysis_period,
                       cfg.pumping_length)) >= 2

\* C7: in a forward run whose head file was read, where some well has usable
\* observed data and some well has none, the run is not aborted and the fit
\* statistics of every usable well are in the document.
C7_OtherWellsStillCompared ==
    ( /\ kind \in {"forward", "final"}
      /\ invState = "read"
      /\ Plotters(config, built.registered) = "ok"
      /\ \E w \in 1..Len(config.wells) : Usable(config, w)
      /\ \E w \in 1..Len(config.wells) : ~Usable(config, w) ) =>
        /\ pc = "done"
        /\ Len(doc.wells) = Cardinality({w \in 1..Len(config.wells) : Usable(config, w)})

\* C8: when no simulated value of the resampled grid is defined, the fit
\* statistics are not returned: the computation ends in a comparison error.
C8_EmptyResidualsRejected ==
    ( /\ stats.status # "none"
      /\ \A i \in 1..Len(interpolated_simulated_drawdown) :
            interpolated_simulated_drawdown[i] = NaN ) =>
        stats.status = "ComparisonError"

\* C9: a grid that calculate_thicknesses returns starts at the aquifer top,
\* ends at the aquifer bottom, has each layer's bottom equal to the next
\* layer's top, and its thicknesses sum to top - bottom.
C9_GridContiguous ==
    grid.status = "ok" =>
        LET n == Len(grid.top) IN
        /\ n > 0
        /\ Len(grid.bottom) = n
        /\ Len(grid.thickness) = n
        /\ grid.top[1] = vr.top_level
        /\ grid.bottom[n] = vr.bottom_level
        /\ \A i \in 1..(n - 1) : grid.bottom[i] = grid.top[i + 1]
        /\ \A i \in 1..n : grid.thickness[i] = grid.top[i] - grid.bottom[i]
        /\ SumSeq(grid.thickness) = vr.top_level - vr.bottom_level

\* a returned grid with layers above, in and below the screen
C9_Witness ==
    /\ calls >= 1
    /\ grid.status = "ok"
    /\ Len(grid.top) >= 4
    /\ vr.point_1_level > vr.point_2_level

\* C10: for a geometry with top > screen top >= screen bottom > bottom,
\* positive multipliers and positive seed thicknesses, the call does not
\* raise, and every layer of the grid it returns is strictly thick.
C10_ValidGeometryBuilds ==
    calls >= 1 =>
        /\ grid.status # "IndexError"
        /\ grid.status = "ok" => \A i \in 1..Len(grid.thickness) : grid.thickness[i] > 0

\* C11: on a valid geometry with positive multipliers and seed thicknesses,
\* each of the three refinement loops of calculate_thicknesses ends: no call
\* is left running in a loop whose level has stopped moving.  (Every geometry
\* of InitGrid is valid; the first call is the one made on it.)
C11_LoopsTerminate ==
    calls = 1 => grid.status # "hang"

\* C12: for a radial domain with well radius > 0, boundary distance > well
\* radius and multiplier > 0, calculate_columns returns column widths whose
\* sum, and so the last cumulative distance, is the boundary distance.
C12_WidthsSumToBoundary ==
    columns.status # "none" =>
        /\ columns.status = "ok"
        /\ SumSeq(columns.delr) = cc.total_length
        /\ columns.cumulative_distances[Len(columns.cumulative_distances)] = cc.total_length

\* C13: for a valid radial domain the first column width that
\* calculate_columns returns is the well radius.
C13_FirstWidthIsWellRadius ==
    columns.status = "ok" => columns.delr[1] = cc.well_radius

\* the layers of a returned grid that lie in one zone: between the levels
\* upper and lower
ZoneLayers(g, upper, lower) ==
    {i \in 1..Len(g.top) : g.top[i] <= upper /\ g.bottom[i] >= lower}

UniformZone(g, upper, lower) ==
    \A i, j \in ZoneLayers(g, upper, lower) : g.thickness[i] = g.thickness[j]

\* C14: in a zone whose multiplier is 1 (above the screen, inside the screen,
\* below the screen), all layers of the returned grid have the same thickness.
C14_UnitMultiplierUniform ==
    grid.status = "ok" =>
        /\ vr.multiplier_above_screen = One =>
               UniformZone(grid, vr.top_level, vr.point_1_level)
        /\ vr.multiplier_between_screen = One =>
               UniformZone(grid, vr.point_1_level, vr.point_2_level)
        /\ vr.multiplier_below_screen = One =>
               UniformZone(grid, vr.point_2_level, vr.bottom_level)

\* C15: the inverse transform, applied to the outputs of the forward
\* transform on the same centroid, width and height arrays, returns the
\* original conductivity, specific yield and specific storage.
C15_TransformInvertible ==
    (original.status # "none" /\ par._converted_hk = calculate_converted_hk(par)
        /\ par._converted_sy = calculate_converted_sy(par)
        /\ par._converted_ss = calculate_converted_ss(par)) =>
        /\ original.status = "returned"
        /\ original.hk = par._original_hk
        /\ original.sy = par._original_sy
        /\ original.ss = par._original_ss

\* C16: the converted conductivity of layer l at column c is
\* original_hk[l] x 2 pi x centroid[c], and specific yield is scaled by the
\* same factor 2 pi r.  In thousandths 2 pi lies between 6283 and 6284 (an
\* original of 1.0 at r = 10 converts to 62.83...).
C16_CircumferentialFactor ==
    converted.status = "returned" =>
        /\ \A l \in 1..Len(par._original_hk) : \A c \in 1..Len(par._distance) :
              /\ converted.hk[l][c] >= par._original_hk[l] * 6283 * par._distance[c]
              /\ converted.hk[l][c] <= par._original_hk[l] * 6284 * par._distance[c]
        /\ \A c \in 1..Len(par._distance) :
              /\ converted.sy[c] >= par._original_sy * 6283 * par._distance[c]
              /\ converted.sy[c] <= par._original_sy * 6284 * par._distance[c]

C18_GridWithinObserved ==
    interpolated_times # <<>> =>
        LET t == dd_interpolator.observed_time
            g == interpolated_times
        IN /\ g[1] = t[1]
           /\ \A k \in 1..(Len(g) - 1) : g[k + 1] - g[k] = smallest_time_step(t)
           /\ \A k \in 1..Len(g) : t[1] <= g[k] /\ g[k] <= t[Len(t)]

\* C19: when the analysis period is "Recovery Only", every simulated time is
\* shifted forward by the pumping duration before resampling; in the other
\* two analysis periods the simulated times are used as they are.  So on
\* the grid, the simulated drawdown at a grid time that is a simulated time
\* (shifted, in "Recovery Only") is that sample's drawdown.
C19_RecoveryTimesShifted ==
    interpolated_simulated_drawdown # <<>> =>
        LET di == dd_interpolator
            shift == IF di.analysis_period = RecoveryOnly THEN di.pumping_end_time ELSE 0
        IN /\ Len(comparison_times) = Len(di.simulated_times)
           /\ \A k \in 1..Len(di.simulated_times) :
                 comparison_times[k] = di.simulated_times[k] + shift
           /\ \A k \in 1..Len(di.simulated_times) : \A j \in 1..Len(interpolated_times) :
                 interpolated_times[j] = di.simulated_times[k] + shift =>
                     interpolated_simulated_drawdown[j] = Num(di.simulated_drawdowns[k])

C19_Witness ==
    /\ interpolated_simulated_drawdown # <<>>
    /\ dd_interpolator.analysis_period = RecoveryOnly
    /\ dd_interpolator.pumping_end_time > 0
    /\ dd_interpolator.simulated_drawdowns[1] # dd_interpolator.simulated_drawdowns[2]
    /\ \E j \in 1..Len(interpolated_times) :
          interpolated_times[j] = dd_interpolator.simulated_times[2]
                                      + dd_interpolator.pumping_end_time

\* the series as they are compared are one and the same
SelfComparison ==
    /\ comparison_times = dd_interpolator.observed_time
    /\ dd_interpolator.simulated_drawdowns = dd_interpolator.observed_DD

\* C20 (as amended): comparing a series against itself, i.e. a simulated
\* series whose values are the observed ones and whose times, after the
\* "Recovery Only" shift where it applies, are the observed ones, yields
\* RMSE = 0 and total residual = 0.
C20_SelfComparisonIsZero ==
    (stats.status = "returned" /\ SelfComparison) =>
        /\ stats.rmse = Num(0)
        /\ stats.total_residual_error = Num(0)

C20_Witness ==
    /\ stats.status = "returned"
    /\ SelfComparison
    /\ dd_interpolator.analysis_period = RecoveryOnly
    /\ dd_interpolator.pumping_end_time > 0
    /\ Len(interpolated_times) > Len(dd_interpolator.observed_time)
    /\ \E i \in 1..Len(dd_interpolator.observed_DD) : dd_interpolator.observed_DD[i] # 0

\* C20 (as stated): a simulated series with the same times and the same
\* values as the observed series yields RMSE = 0 and total residual = 0.
C20_SameArraysIsZero ==
    ( /\ stats.status = "returned"
      /\ dd_interpolator.simulated_times = dd_interpolator.observed_time
      /\ dd_interpolator.simulated_drawdowns = dd_interpolator.observed_DD ) =>
        /\ stats.rmse = Num(0)
        /\ stats.total_residual_error = Num(0)

\* ------------------------------------------------------------ C21
\* a trial whose solver call succeeded and whose comparison covered every
\* observation well has just returned to fmin
TrialScored ==
    /\ kind = "trial"
    /\ invState = "read"
    /\ Len(config.wells) > 0
    /\ Len(well_stats) = Len(config.wells)

\* C21: the objective value of a trial whose solver call succeeded is
\* 0.2 * (mean over the observation wells of the per-well RMSE) / 1.0
\* + 0.8 * (mean of the per-well total residual error) / 100.0.  retval is
\* in 1/ObjUnit, so the equation is multiplied through by 10 * 100 * n.
C21_ObjectiveIsWeightedMean ==
    TrialScored =>
        LET n == Len(well_stats)
            rmse_sum == SumSeq([i \in 1..n |-> well_stats[i].rmse])
            total_sum == SumSeq([i \in 1..n |-> well_stats[i].total])
        IN 10 * 100 * n * retval = ObjUnit * (2 * 100 * rmse_sum + 8 * total_sum)

C21_Witness ==
    /\ TrialScored
    /\ Len(well_stats) = 2
    /\ well_stats[1].rmse # well_stats[2].rmse
    /\ retval > 0
    /\ retval # PenaltyValue

\* ------------------------------------------------------------ C22
\* C22: radius_influence returns the distance of the first column whose
\* |static head - simulated head| is strictly below the threshold; if no
\* column of the domain is, it returns the outer boundary distance; it
\* returns a value for every input.
C22_RadiusOfInfluence ==
    radius # -1 =>
        LET n == Len(plotter.avg_head_at_depth)
            Within(i) == \/ plotter.starting_heads - plotter.avg_head_at_depth[i] \in 0..1
                         \/ plotter.avg_head_at_depth[i] - plotter.starting_heads \in 0..1
        IN \/ \E i \in 1..n : /\ Within(i)
                              /\ \A j \in 1..(i - 1) : ~Within(j)
                              /\ radius = plotter.distance[i]
           \/ /\ \A i \in 1..n : ~Within(i)
              /\ radius = plotter.col_length

\* a column exactly at the threshold comes before a column within it
C22_Witness ==
    /\ radius # -1
    /\ Len(plotter.avg_head_at_depth) >= 3
    /\ plotter.starting_heads - plotter.avg_head_at_depth[1] > threshold
    /\ plotter.starting_heads - plotter.avg_head_at_depth[2] = threshold
    /\ plotter.starting_heads - plotter.avg_head_at_depth[3] < threshold
    /\ radius = plotter.distance[3]

\* ------------------------------------------------------------ C23
\* the intervals of the profile that hold the midpoint of layer i
IntervalsOf(i) ==
    {j \in 1..Len(hk_profile) :
        /\ 2 * hk_profile[j].range[1] >= layering.top[i] + layering.bottom[i]
        /\ layering.top[i] + layering.bottom[i] > 2 * hk_profile[j].range[2]}

\* the profile's value j in m/s
ProfileValue(j) == (hk_profile[j].k * HkUnit) \div 86400

\* C23: calculate_hydraulic_parameters gives exactly one conductivity per
\* layer, in layer order, and the conductivity array has nlay rows; entry i
\* is the value of the first interval with interval_top >= midpoint of
\* layer i > interval_bottom, and a layer in no interval gets the first value
\* of the profile.
C23_OneConductivityPerLayer ==
    converted.status = "returned" =>
        /\ Len(hk_values) = Len(layering.top)
        /\ Len(converted.hk) = Len(layering.top)
        /\ \A i \in 1..Len(hk_values) :
              /\ \A j \in IntervalsOf(i) :
                    (\A h \in IntervalsOf(i) : j <= h) => hk_values[i] = ProfileValue(j)
              /\ (IntervalsOf(i) = {} /\ hk_profile # <<>>) => hk_values[i] = ProfileValue(1)

\* two layers: the first in both intervals of the profile, the second in none
C23_Witness ==
    /\ converted.status = "returned"
    /\ Len(layering.top) = 2
    /\ Len(hk_profile) = 2
    /\ IntervalsOf(1) = {1, 2}
    /\ IntervalsOf(2) = {}
    /\ hk_values = <<ProfileValue(1), ProfileValue(1)>>

\* ------------------------------------------------------------ C24
\* C24: when lambda_handler has returned, every record of the event that
\* carries model_inputs has been run as a simulation: n such records lead to
\* n runs, none is dropped.
C24_EveryRecordSimulated ==
    response # "none" =>
        \A i \in 1..Len(event) : event[i] = "model_inputs" => i \in Elems(simulated)

\* ------------------------------------------------------------ C25
\* an evaluation of the calibration is under way: a trial or the final run
Decoded ==
    /\ pc \in {"solver", "read"}
    /\ kind \in {"trial", "final"}

\* the value the forward model gets for the parameter of that name
ValueNamed(name) ==
    IF name[1] = "hk_layer" THEN params.hk[name[2]]
    ELSE IF name[1] = "sy" THEN params.sy
    ELSE params.ss

TrialRaised ==
    /\ kind = "trial"
    /\ pc = "fmin"
    /\ \/ built.status # "ok"
       \/ invState = "failed"
       \/ /\ invState = "read"
          /\ ~(Len(config.wells) > 0 /\ Len(well_stats) = Len(config.wells))

\* C26: objective_function returns a number for every trial vector: an
\* exception of any kind raised while a trial is evaluated becomes the value
\* 1e6 and never reaches the optimizer.
C26_EveryTrialReturnsANumber ==
    kind = "trial" =>
        /\ pc \in {"fmin", "solver", "read"}
        /\ error = "none"
        /\ pc = "fmin" => retval >= 0
        /\ TrialRaised => retval = PENALTY * 1000

\* a trial whose solver call succeeded and whose second well has too few
\* samples in the analysis period
C26_Witness ==
    /\ TrialRaised
    /\ invState = "read"
    /\ Len(config.wells) = 2
    /\ Len(well_stats) = 1
    /\ retval = PenaltyValue

\* a trial that raised in the grid construction
C26_WitnessGrid ==
    /\ TrialRaised
    /\ built.status = "IndexError"
    /\ retval = PenaltyValue

\* ------------------------------------------------------------ C27
\* C27: for every geometry with top > screen top >= screen bottom > bottom,
\* the grid calculate_thicknesses returns has the screen top as the top of
\* some layer and the screen bottom as the bottom of some layer, so that
\* top.index(sc_top) and bottom.index(sc_bottom) succeed.
C27_ScreenLevelsAreLayerLevels ==
    (/\ calls = 1
     /\ grid.status = "ok"
     /\ vr.top_level > vr.point_1_level
     /\ vr.point_1_level >= vr.point_2_level
     /\ vr.point_2_level > vr.bottom_level)
    => /\ \E i \in 1..Len(grid.top) : grid.top[i] = vr.point_1_level
       /\ \E i \in 1..Len(grid.bottom) : grid.bottom[i] = vr.point_2_level

\* ------------------------------------------------------------ C28
\* the fluxes of one stress period of the well package, added up
FluxSum(entries) == SumSeq([k \in 1..Len(entries) |-> entries[k].flux])

\* C28: the per-layer well fluxes assigned in the pumping stress period sum
\* to the pumping rate Q, and every entry of a recovery stress period has
\* flux 0.  Fluxes are held in units of 1 / (screen top - screen bottom).
C28_FluxesSumToQ ==
    (built.status = "ok" /\ invState # "none") =>
        LET time_params == get_time_parameters(config.analysis_period)
            screen == config.geometry.point_1_level - config.geometry.point_2_level
            recovery == IF time_params.include_pumping THEN 2 ELSE 1
        IN /\ time_params.include_pumping => FluxSum(built.wel[1]) = Q_m3_hr * screen
           /\ time_params.include_recovery =>
                 \A k \in 1..Len(built.wel[recovery]) : built.wel[recovery][k].flux = 0

\* the same on the three selectors the package spells out
C28_FluxesSumToQ_KnownSelectors ==
    config.analysis_period \in AnalysisPeriods => C28_FluxesSumToQ

\* ------------------------------------------------------------ C29
\* C29: for an observation well with 0 < distance <= boundary distance, the
\* column at which its observation points are registered is the column its
\* simulated heads are read from, and it is a valid column, 0 .. ncol - 1.
C29_SameValidColumn ==
    (/\ obs_id.status = "set"
     /\ 0 < obs_distance
     /\ obs_distance <= cc.total_length)
    => /\ obs_col_id.col = obs_id.col
       /\ obs_col_id.col \in 0..(columns.ncol - 1)

\* ------------------------------------------------------------ C30
\* C30: calculate_thicknesses leaves the builder's configuration unchanged:
\* the seed thicknesses held by the instance are the same after a call as
\* before, and a second call on the same instance returns the same
\* (top, bottom, thickness) as the first.
C30_CallLeavesConfiguration ==
    [][/\ grid'.status = "ok" =>
            /\ vr'.layer_thickness_1 = vr.layer_thickness_1
            /\ vr'.layer_thickness_2 = vr.layer_thickness_2
       /\ (calls = 1 /\ grid.status = "ok") =>
            /\ grid'.status = "ok"
            /\ grid'.top = grid.top
            /\ grid'.bottom = grid.bottom
            /\ grid'.thickness = grid.thickness]_vars

====
